---- MODULE Spec2Model ----
(***************************************************************************)
(* Resource/domain lifecycle engine of arch/x86/kernel/cpu/resctrl/core.c: *)
(* the domain registry driven by CPU hotplug, the register programmer and  *)
(* the rdt= option override.                                               *)
(***************************************************************************)
EXTENDS Integers, Sequences, FiniteSets, TLC

VARIABLES
    res,               \* rdt_resources_all[]: per resource capability record
    ctrl_domains,      \* r->ctrl_domains: per resource, the list of control domains
    mon_domains,       \* r->mon_domains: per resource, the list of monitor domains
    heap,              \* addresses of the domain objects allocated and not yet freed
    msr,               \* quota registers: msr[r][id][i] is register msr_base + i of instance id
    domain_list_lock,  \* owner of the mutex (a cpu) or NoCpu
    pc,                \* per cpu: position of its hotplug handler
    pqr_state,         \* per cpu: cached resctrl_pqr_state
    pqr_assoc,         \* per cpu: MSR_IA32_PQR_ASSOC
    hist,              \* per cpu: the steps of its current (or last) handler run
    ev,                \* the last registry operation and what it did
    nenv,              \* environment events (failures, quota updates) injected so far
    rdt_options,       \* rdt_options[]: force_off / force_on per option
    boot,              \* boot-time inputs: cpu feature bits, model quirk, rdt= string
    bootpc,            \* position of the boot-time option handling
    queried,           \* the result of the last rdt_cpu_has() call
    msr_param,         \* the struct msr_param handed to a pending rdt_ctrl_update()
    wr,                \* the registry procedure that runs statement by statement
    rd,                \* the lock-free reader of a domain list
    plr_d,             \* plr->d: the domains pseudo-lock regions point back to
    torn,              \* history: resource, identity and quota array of the freed control domains
    late               \* resctrl_arch_late_init(): position, cpuhp state, return value

vars == <<res, ctrl_domains, mon_domains, heap, msr, domain_list_lock, pc,
          pqr_state, pqr_assoc, hist, ev, nenv,
          rdt_options, boot, bootpc, queried, msr_param, wr, rd, plr_d, torn, late>>

regvars == <<res, ctrl_domains, mon_domains, heap, msr, domain_list_lock, pc,
             pqr_state, pqr_assoc, hist, ev, nenv>>

optvars == <<rdt_options, boot, bootpc, queried>>

stepvars == <<msr_param, wr, rd, plr_d, torn, late>>

---------------------------------------------------------------------------
(* Bounds of the model *)

\* Environment events injected in one run: failed allocations, failed hooks and
\* quota updates of the upper layer
MaxEnv == 1


---------------------------------------------------------------------------
(* Program constants *)

MAX_MBA_BW == 100
RESCTRL_RESERVED_CLOSID == 0
RESCTRL_RESERVED_RMID == 0

\* rdt_resources_all[] in index order
ResNames == <<"L3", "L2", "MB", "SMBA">>
Rids == 1 .. Len(ResNames)
RDT_RESOURCE_L3 == 1
RDT_RESOURCE_L2 == 2
RDT_RESOURCE_MBA == 3
RDT_RESOURCE_SMBA == 4

\* .ctrl_scope / .mon_scope / .schema_fmt / .msr_update of the static table
StaticRes(r) ==
    CASE r = RDT_RESOURCE_L3 ->
            [ctrl_scope |-> "RESCTRL_L3_CACHE", mon_scope |-> "RESCTRL_L3_CACHE",
             schema_fmt |-> "RESCTRL_SCHEMA_BITMAP", msr_update |-> "cat_wrmsr"]
      [] r = RDT_RESOURCE_L2 ->
            [ctrl_scope |-> "RESCTRL_L2_CACHE", mon_scope |-> "none",
             schema_fmt |-> "RESCTRL_SCHEMA_BITMAP", msr_update |-> "cat_wrmsr"]
      [] r = RDT_RESOURCE_MBA ->
            [ctrl_scope |-> "RESCTRL_L3_CACHE", mon_scope |-> "none",
             schema_fmt |-> "RESCTRL_SCHEMA_RANGE", msr_update |-> "none"]
      [] OTHER ->
            [ctrl_scope |-> "RESCTRL_L3_CACHE", mon_scope |-> "none",
             schema_fmt |-> "RESCTRL_SCHEMA_RANGE", msr_update |-> "none"]

---------------------------------------------------------------------------
(* Hardware the model is run on: what CPUID reports on two platforms *)

Platforms == {"intel", "amd"}

\* CPUID.0x10 (Intel) / CPUID.0x80000020 (AMD) as read by the probe routines
Cpuid(p) ==
    IF p = "intel"
    THEN [vendor |-> "X86_VENDOR_INTEL",
          cat_l3 |-> [present |-> TRUE, cos_max |-> 3, cbm_len |-> 19],
          cat_l2 |-> [present |-> TRUE, cos_max |-> 1, cbm_len |-> 7],
          mba    |-> [present |-> TRUE, cos_max |-> 1, max_delay |-> 89, linear |-> TRUE],
          smba   |-> [present |-> FALSE, cos_max |-> 0, max_delay |-> 0, linear |-> FALSE],
          mon    |-> {"mbm_total", "mbm_local"}]
    ELSE [vendor |-> "X86_VENDOR_AMD",
          cat_l3 |-> [present |-> TRUE, cos_max |-> 1, cbm_len |-> 3],
          cat_l2 |-> [present |-> FALSE, cos_max |-> 0, cbm_len |-> 0],
          mba    |-> [present |-> TRUE, cos_max |-> 1, max_delay |-> 11, linear |-> FALSE],
          smba   |-> [present |-> TRUE, cos_max |-> 1, max_delay |-> 11, linear |-> FALSE],
          mon    |-> {"mbm_total"}]

\* A resource before capability discovery: the static initialiser
UnprobedRes(r) ==
    [name |-> ResNames[r],
     ctrl_scope |-> StaticRes(r).ctrl_scope,
     mon_scope |-> StaticRes(r).mon_scope,
     schema_fmt |-> StaticRes(r).schema_fmt,
     msr_update |-> StaticRes(r).msr_update,
     alloc_capable |-> FALSE, mon_capable |-> FALSE,
     num_closid |-> 0, cbm_len |-> 0,
     max_bw |-> 0, min_bw |-> 0, bw_gran |-> 0, delay_linear |-> FALSE,
     arch_has_per_cpu_cfg |-> FALSE,
     mbm_total |-> FALSE, mbm_local |-> FALSE]

\* rdt_init_res_defs_intel(): vendor-specific definitions
rdt_init_res_defs_intel(r, rec) ==
    IF r = RDT_RESOURCE_L3 \/ r = RDT_RESOURCE_L2
    THEN [rec EXCEPT !.arch_has_per_cpu_cfg = FALSE]
    ELSE IF r = RDT_RESOURCE_MBA
    THEN [rec EXCEPT !.msr_update = "mba_wrmsr_intel"]
    ELSE rec

\* rdt_init_res_defs_amd(): vendor-specific definitions
rdt_init_res_defs_amd(r, rec) ==
    IF r = RDT_RESOURCE_L3 \/ r = RDT_RESOURCE_L2
    THEN [rec EXCEPT !.arch_has_per_cpu_cfg = TRUE]
    ELSE IF r = RDT_RESOURCE_MBA \/ r = RDT_RESOURCE_SMBA
    THEN [rec EXCEPT !.msr_update = "mba_wrmsr_amd"]
    ELSE rec

\* rdt_init_res_defs()
rdt_init_res_defs(vendor, r, rec) ==
    IF vendor = "X86_VENDOR_INTEL" THEN rdt_init_res_defs_intel(r, rec)
    ELSE IF vendor = "X86_VENDOR_AMD" THEN rdt_init_res_defs_amd(r, rec)
    ELSE rec

\* rdt_get_cache_alloc_cfg(): class count and bitmask length of a cache
rdt_get_cache_alloc_cfg(leaf, rec) ==
    [rec EXCEPT !.num_closid = leaf.cos_max + 1,
                !.cbm_len = leaf.cbm_len + 1,
                !.alloc_capable = TRUE]

\* Fault variant: a delay table that is not linear is accepted as well
get_mem_config_intel_any(leaf, rec) ==
    LET max_delay == leaf.max_delay + 1
    IN  [rec EXCEPT !.num_closid = leaf.cos_max + 1, !.max_bw = MAX_MBA_BW,
                    !.delay_linear = leaf.linear,
                    !.min_bw = MAX_MBA_BW - max_delay,
                    !.bw_gran = MAX_MBA_BW - max_delay,
                    !.alloc_capable = TRUE]

\* __get_mem_config_intel(): bandwidth allocation with a delay encoding
get_mem_config_intel(leaf, rec) ==
    LET max_delay == leaf.max_delay + 1
        base == [rec EXCEPT !.num_closid = leaf.cos_max + 1, !.max_bw = MAX_MBA_BW]
    IN  IF leaf.linear
        THEN [base EXCEPT !.delay_linear = TRUE,
                          !.min_bw = MAX_MBA_BW - max_delay,
                          !.bw_gran = MAX_MBA_BW - max_delay,
                          !.alloc_capable = TRUE]
        ELSE base   \* rdt_get_mb_table() returns false: not allocation-capable

\* __rdt_get_mem_config_amd(): bandwidth allocation without delay semantics
rdt_get_mem_config_amd(leaf, rec) ==
    [rec EXCEPT !.num_closid = leaf.cos_max + 1,
                !.max_bw = 2 ^ leaf.max_delay,
                !.delay_linear = FALSE,
                !.min_bw = 0, !.bw_gran = 1,
                !.alloc_capable = TRUE]

\* The resource table after capability discovery on platform p, no rdt= option
ProbedRes(p, r) ==
    LET hw == Cpuid(p)
        r0 == rdt_init_res_defs(hw.vendor, r, UnprobedRes(r))
    IN  CASE r = RDT_RESOURCE_L3 ->
               LET a == IF hw.cat_l3.present THEN rdt_get_cache_alloc_cfg(hw.cat_l3, r0) ELSE r0
               IN  [a EXCEPT !.mon_capable = (hw.mon # {}),
                             !.mbm_total = ("mbm_total" \in hw.mon),
                             !.mbm_local = ("mbm_local" \in hw.mon)]
          [] r = RDT_RESOURCE_L2 ->
               IF hw.cat_l2.present THEN rdt_get_cache_alloc_cfg(hw.cat_l2, r0) ELSE r0
          [] r = RDT_RESOURCE_MBA ->
               IF ~hw.mba.present THEN r0
               ELSE IF hw.vendor = "X86_VENDOR_INTEL" THEN get_mem_config_intel(hw.mba, r0)
               ELSE IF hw.vendor = "X86_VENDOR_AMD" THEN rdt_get_mem_config_amd(hw.mba, r0)
               ELSE r0
          [] OTHER ->
               IF hw.smba.present /\ hw.vendor = "X86_VENDOR_AMD"
               THEN rdt_get_mem_config_amd(hw.smba, r0) ELSE r0

\* resctrl_get_default_ctrl(): the "no restriction" value of a resource
resctrl_get_default_ctrl(rec) ==
    IF rec.schema_fmt = "RESCTRL_SCHEMA_BITMAP" THEN 2 ^ rec.cbm_len - 1
    ELSE rec.max_bw

---------------------------------------------------------------------------
(* Topology: which cache instance a cpu belongs to *)

\* The machine: three cpus; cpus 0 and 1 share L3 instance 0, cpu 2 has L3
\* instance 1; cpus 0 and 1 have their own L2 instance, and cacheinfo holds no
\* id for cpu 2's L2 (-1)
L3Id == <<0, 0, 1>>
L2Id == <<0, 1, 0 - 1>>

\* get_cpu_cacheinfo_id(): the id of the cpu's cache instance at this level
get_cpu_cacheinfo_id(cpu, scope) ==
    IF scope = "RESCTRL_L3_CACHE" THEN L3Id[cpu + 1] ELSE L2Id[cpu + 1]

Cpus == 0 .. (Len(L3Id) - 1)
NoCpu == 0 - 1

\* cpu_to_node(): a single NUMA node
cpu_to_node(cpu) == 0

\* Fault variant: an identity that cannot be resolved is reported as 0
get_domain_id_from_scope_zero(cpu, scope) ==
    IF scope \in {"RESCTRL_L2_CACHE", "RESCTRL_L3_CACHE"}
    THEN (IF get_cpu_cacheinfo_id(cpu, scope) < 0 THEN 0 ELSE get_cpu_cacheinfo_id(cpu, scope))
    ELSE 0

\* get_domain_id_from_scope()
get_domain_id_from_scope(cpu, scope) ==
    IF scope \in {"RESCTRL_L2_CACHE", "RESCTRL_L3_CACHE"} THEN get_cpu_cacheinfo_id(cpu, scope)
    ELSE IF scope = "RESCTRL_L3_NODE" THEN cpu_to_node(cpu)
    ELSE 0 - 22

---------------------------------------------------------------------------
(* Domain lists *)

\* resctrl_find_domain(): walk the id-sorted list h from entry l; hdr is the
\* index of the domain with this id (0: none), pos the entry to insert before
\* (Len(h) + 1: the list head)
RECURSIVE find_from(_, _, _)
find_from(h, id, l) ==
    IF l > Len(h) THEN [hdr |-> 0, pos |-> l]
    ELSE IF id = h[l].id THEN [hdr |-> l, pos |-> l]
    ELSE IF id < h[l].id THEN [hdr |-> 0, pos |-> l]
    ELSE find_from(h, id, l + 1)

resctrl_find_domain(h, id) == find_from(h, id, 1)

\* Fault variant: the new domain is never linked
list_add_tail_rcu_lost(h, d, pos) == h

\* Fault variant: the new domain is linked at the tail whatever the position
list_add_tail_rcu_at_end(h, d, pos) == Append(h, d)

\* list_add_tail_rcu(new, pos): link d in front of entry pos
list_add_tail_rcu(h, d, pos) ==
    SubSeq(h, 1, pos - 1) \o <<d>> \o SubSeq(h, pos, Len(h))

\* list_del_rcu(): unlink entry i
list_del_rcu(h, i) ==
    SubSeq(h, 1, i - 1) \o SubSeq(h, i + 1, Len(h))

\* kzalloc_node(): an address not in use. Which free address the allocator
\* returns is immaterial to the code; the model takes the first free one of
\* the slots of this (list, resource, id): slot, slot + Stride, ...
Stride == 64

Slot(kind, r, id) == 1 + (IF kind = "mon" THEN 32 ELSE 0) + 8 * (r - 1) + id

kzalloc(hp, kind, r, id) ==
    CHOOSE a \in {Slot(kind, r, id) + k * Stride : k \in 0 .. Cardinality(hp)} :
        /\ a \notin hp
        /\ \A k \in 0 .. Cardinality(hp) :
               (Slot(kind, r, id) + k * Stride < a) => (Slot(kind, r, id) + k * Stride \in hp)

---------------------------------------------------------------------------
(* Register programmer *)

\* Fault variant: the percentage is written as it is
delay_bw_map_identity(bw, rec) == bw

\* delay_bw_map(): bandwidth percentage to delay value
delay_bw_map(bw, rec) ==
    IF rec.delay_linear THEN MAX_MBA_BW - bw
    ELSE MAX_MBA_BW

\* The sequence of integers low, low + 1, ..., high - 1
RECURSIVE Range(_, _)
Range(low, high) == IF low >= high THEN <<>> ELSE <<low>> \o Range(low + 1, high)

\* Fault variant: the loop starts one past low
cat_wrmsr_skip_low(rec, ctrl_val, low, high) ==
    [k \in 1 .. Len(Range(low + 1, high)) |->
        [i |-> Range(low + 1, high)[k], v |-> ctrl_val[Range(low + 1, high)[k]]]]

\* cat_wrmsr(): the register writes [i, v] for the indices of [low, high)
cat_wrmsr(rec, ctrl_val, low, high) ==
    [k \in 1 .. Len(Range(low, high)) |->
        [i |-> Range(low, high)[k], v |-> ctrl_val[Range(low, high)[k]]]]

\* mba_wrmsr_amd()
mba_wrmsr_amd(rec, ctrl_val, low, high) ==
    [k \in 1 .. Len(Range(low, high)) |->
        [i |-> Range(low, high)[k], v |-> ctrl_val[Range(low, high)[k]]]]

\* mba_wrmsr_intel(): writes the delay values
mba_wrmsr_intel(rec, ctrl_val, low, high) ==
    [k \in 1 .. Len(Range(low, high)) |->
        [i |-> Range(low, high)[k],
         v |-> delay_bw_map(ctrl_val[Range(low, high)[k]], rec)]]

\* hw_res->msr_update(&m): dispatch on the strategy chosen at init
msr_update(rec, ctrl_val, low, high) ==
    IF rec.msr_update = "cat_wrmsr" THEN cat_wrmsr(rec, ctrl_val, low, high)
    ELSE IF rec.msr_update = "mba_wrmsr_intel" THEN mba_wrmsr_intel(rec, ctrl_val, low, high)
    ELSE mba_wrmsr_amd(rec, ctrl_val, low, high)

\* wrmsrq(): the registers of one instance after the writes ws, in order
RECURSIVE wrmsrq(_, _)
wrmsrq(regs, ws) ==
    IF ws = <<>> THEN regs
    ELSE wrmsrq([regs EXCEPT ![Head(ws).i] = Head(ws).v], Tail(ws))

\* Fault variant: class 0 is left as kmalloc_array() returned it
setup_default_ctrlval_from1(rec) ==
    [i \in 0 .. (rec.num_closid - 1) |-> IF i = 0 THEN 0 ELSE resctrl_get_default_ctrl(rec)]

\* setup_default_ctrlval(): every class gets the resource's default
setup_default_ctrlval(rec) ==
    [i \in 0 .. (rec.num_closid - 1) |-> resctrl_get_default_ctrl(rec)]

\* Fault variant: the quota array is filled but the registers are not written
domain_setup_ctrlval_no_write(rec, enomem) ==
    IF enomem THEN [err |-> TRUE, ctrl_val |-> <<>>, wrote |-> <<>>]
    ELSE [err |-> FALSE, ctrl_val |-> setup_default_ctrlval(rec), wrote |-> <<>>]

\* domain_setup_ctrlval(): allocate and fill the quota array, program it;
\* enomem: kmalloc_array() fails
domain_setup_ctrlval(rec, enomem) ==
    IF enomem THEN [err |-> TRUE, ctrl_val |-> <<>>, wrote |-> <<>>]
    ELSE [err |-> FALSE,
          ctrl_val |-> setup_default_ctrlval(rec),
          wrote |-> msr_update(rec, setup_default_ctrlval(rec), 0, rec.num_closid)]

---------------------------------------------------------------------------
(* Domain registry: add and remove procedures *)

\* Fault variant: the mask is overwritten with the one cpu
cpumask_set_cpu_only(cpu, mask) == {cpu}

\* cpumask_set_cpu(cpu, &d->hdr.cpu_mask)
cpumask_set_cpu(cpu, mask) == mask \cup {cpu}

\* Fault variant: the object is not freed
ctrl_domain_free_leak(hp, addr) == hp

\* ctrl_domain_free() / mon_domain_free(): the object and its arrays are freed
ctrl_domain_free(hp, addr) == hp \ {addr}

mon_domain_free(hp, addr) == hp \ {addr}

\* What a registry procedure reports in ev
Event(op, cpu, r, id, out, steps, wrote) ==
    [op |-> op, cpu |-> cpu, rid |-> r, id |-> id, out |-> out,
     steps |-> steps, wrote |-> wrote]

\* rdt_domain_reconfigure_cdp() is called on a join only for per-cpu settings
JoinSteps(rec) ==
    IF rec.arch_has_per_cpu_cfg THEN <<"rdt_domain_reconfigure_cdp">> ELSE <<>>

\* Which branch domain_add_cpu_ctrl() takes for this cpu
CtrlPath(cpu, r) ==
    LET id == get_domain_id_from_scope(cpu, res[r].ctrl_scope)
    IN  IF id < 0 THEN "no_id"
        ELSE IF resctrl_find_domain(ctrl_domains[r], id).hdr # 0 THEN "found"
        ELSE "create"

\* Which branch domain_add_cpu_mon() takes for this cpu
MonPath(cpu, r) ==
    LET id == get_domain_id_from_scope(cpu, res[r].mon_scope)
    IN  IF id < 0 THEN "no_id"
        ELSE IF resctrl_find_domain(mon_domains[r], id).hdr # 0 THEN "found"
        ELSE "create"

\* The failures that can be injected into a call
CtrlFails(cpu, r) ==
    IF CtrlPath(cpu, r) = "create" /\ nenv < MaxEnv
    THEN {"none", "kzalloc", "ctrlval", "hook"} ELSE {"none"}

MonFails(cpu, r) ==
    IF MonPath(cpu, r) = "create" /\ nenv < MaxEnv
    THEN {"none", "kzalloc", "hook"}
         \cup (IF res[r].mbm_total THEN {"mbm_total"} ELSE {})
         \cup (IF res[r].mbm_local THEN {"mbm_local"} ELSE {})
    ELSE {"none"}

\* domain_add_cpu_ctrl(cpu, r); fail names the call that fails, if any
domain_add_cpu_ctrl(cpu, r, fail) ==
    LET rec   == res[r]
        id    == get_domain_id_from_scope(cpu, rec.ctrl_scope)
        f     == resctrl_find_domain(ctrl_domains[r], id)
        addr  == kzalloc(heap, "ctrl", r, id)
        s     == domain_setup_ctrlval(rec, fail = "ctrlval")
        d     == [id |-> id, cpu_mask |-> cpumask_set_cpu(cpu, {}), addr |-> addr,
                  ctrl_val |-> s.ctrl_val, plr |-> FALSE]
        linked == list_add_tail_rcu(ctrl_domains[r], d, f.pos)
        E(out, steps, wrote) == Event("domain_add_cpu_ctrl", cpu, r, id, out, steps, wrote)
    IN  /\ nenv' = IF fail = "none" THEN nenv ELSE nenv + 1
        /\ UNCHANGED mon_domains
        /\ IF id < 0
           THEN /\ UNCHANGED <<ctrl_domains, heap, msr>>
                /\ ev' = E("no_id", <<>>, <<>>)
           ELSE IF f.hdr # 0
           THEN /\ ctrl_domains' = [ctrl_domains EXCEPT ![r][f.hdr].cpu_mask = cpumask_set_cpu(cpu, @)]
                /\ UNCHANGED <<heap, msr>>
                /\ ev' = E("joined", JoinSteps(rec), <<>>)
           ELSE IF fail = "kzalloc"
           THEN /\ UNCHANGED <<ctrl_domains, heap, msr>>
                /\ ev' = E("enomem_dom", <<>>, <<>>)
           ELSE IF s.err
           THEN /\ UNCHANGED <<ctrl_domains, msr>>
                /\ heap' = ctrl_domain_free(heap \cup {addr}, addr)
                /\ ev' = E("enomem_ctrlval",
                           <<"kzalloc", "rdt_domain_reconfigure_cdp", "ctrl_domain_free">>, <<>>)
           ELSE IF fail = "hook"
           THEN /\ ctrl_domains' = [ctrl_domains EXCEPT ![r] = list_del_rcu(linked, f.pos)]
                /\ heap' = ctrl_domain_free(heap \cup {addr}, addr)
                /\ msr' = [msr EXCEPT ![r][id] = wrmsrq(@, s.wrote)]
                /\ ev' = E("hook_err",
                           <<"kzalloc", "rdt_domain_reconfigure_cdp", "msr_update",
                             "list_add_tail_rcu", "resctrl_online_ctrl_domain",
                             "list_del_rcu", "synchronize_rcu", "ctrl_domain_free">>, s.wrote)
           ELSE /\ ctrl_domains' = [ctrl_domains EXCEPT ![r] = linked]
                /\ heap' = heap \cup {addr}
                /\ msr' = [msr EXCEPT ![r][id] = wrmsrq(@, s.wrote)]
                /\ ev' = E("created",
                           <<"kzalloc", "rdt_domain_reconfigure_cdp", "msr_update",
                             "list_add_tail_rcu", "resctrl_online_ctrl_domain">>, s.wrote)

\* arch_domain_mbm_alloc(): the counter arrays of the enabled counter kinds
arch_domain_mbm_alloc(rec, fail) ==
    IF rec.mbm_total /\ fail = "mbm_total"
    THEN [err |-> TRUE, arch_mbm_total |-> FALSE, arch_mbm_local |-> FALSE]
    ELSE IF rec.mbm_local /\ fail = "mbm_local"
    THEN [err |-> TRUE, arch_mbm_total |-> FALSE, arch_mbm_local |-> FALSE]
    ELSE [err |-> FALSE, arch_mbm_total |-> rec.mbm_total, arch_mbm_local |-> rec.mbm_local]

\* domain_add_cpu_mon(cpu, r)
domain_add_cpu_mon(cpu, r, fail) ==
    LET rec   == res[r]
        id    == get_domain_id_from_scope(cpu, rec.mon_scope)
        f     == resctrl_find_domain(mon_domains[r], id)
        addr  == kzalloc(heap, "mon", r, id)
        ci    == get_cpu_cacheinfo_id(cpu, "RESCTRL_L3_CACHE")
        a     == arch_domain_mbm_alloc(rec, fail)
        d     == [id |-> id, cpu_mask |-> cpumask_set_cpu(cpu, {}), addr |-> addr, ci_id |-> ci,
                  arch_mbm_total |-> a.arch_mbm_total, arch_mbm_local |-> a.arch_mbm_local]
        linked == list_add_tail_rcu(mon_domains[r], d, f.pos)
        E(out, steps) == Event("domain_add_cpu_mon", cpu, r, id, out, steps, <<>>)
    IN  /\ nenv' = IF fail = "none" THEN nenv ELSE nenv + 1
        /\ UNCHANGED <<ctrl_domains, msr>>
        /\ IF id < 0
           THEN /\ UNCHANGED <<mon_domains, heap>>
                /\ ev' = E("no_id", <<>>)
           ELSE IF f.hdr # 0
           THEN /\ mon_domains' = [mon_domains EXCEPT ![r][f.hdr].cpu_mask = cpumask_set_cpu(cpu, @)]
                /\ UNCHANGED heap
                /\ ev' = E("joined", <<>>)
           ELSE IF fail = "kzalloc"
           THEN /\ UNCHANGED <<mon_domains, heap>>
                /\ ev' = E("enomem_dom", <<>>)
           ELSE IF ci < 0
           THEN /\ UNCHANGED mon_domains
                /\ heap' = mon_domain_free(heap \cup {addr}, addr)
                /\ ev' = E("no_ci", <<"kzalloc", "mon_domain_free">>)
           ELSE IF a.err
           THEN /\ UNCHANGED mon_domains
                /\ heap' = mon_domain_free(heap \cup {addr}, addr)
                /\ ev' = E("enomem_mbm", <<"kzalloc", "arch_mon_domain_online", "mon_domain_free">>)
           ELSE IF fail = "hook"
           THEN /\ mon_domains' = [mon_domains EXCEPT ![r] = list_del_rcu(linked, f.pos)]
                /\ heap' = mon_domain_free(heap \cup {addr}, addr)
                /\ ev' = E("hook_err",
                           <<"kzalloc", "arch_mon_domain_online", "list_add_tail_rcu",
                             "resctrl_online_mon_domain", "list_del_rcu",
                             "synchronize_rcu", "mon_domain_free">>)
           ELSE /\ mon_domains' = [mon_domains EXCEPT ![r] = linked]
                /\ heap' = heap \cup {addr}
                /\ ev' = E("created",
                           <<"kzalloc", "arch_mon_domain_online", "list_add_tail_rcu",
                             "resctrl_online_mon_domain">>)

\* Fault variants: the emptiness test never, or always, succeeds
cpumask_empty_never(mask) == FALSE

cpumask_empty_always(mask) == TRUE

\* cpumask_empty(&d->hdr.cpu_mask): no member cpu is left
cpumask_empty(mask) == mask = {}

\* The teardown steps of a control domain whose last cpu left
CtrlTeardownSteps(d) ==
    <<"resctrl_offline_ctrl_domain", "list_del_rcu", "synchronize_rcu">>
    \o (IF d.plr THEN <<"plr_clear">> ELSE <<>>)
    \o <<"ctrl_domain_free">>

\* Fault variant: a missing domain does not end the procedure before the
\* offline-domain hook
domain_remove_cpu_ctrl_no_hdr_check(cpu, r) ==
    LET rec == res[r]
        id  == get_domain_id_from_scope(cpu, rec.ctrl_scope)
        f   == resctrl_find_domain(ctrl_domains[r], id)
        d   == ctrl_domains[r][f.hdr]
        cleared == d.cpu_mask \ {cpu}
        E(out, steps) == Event("domain_remove_cpu_ctrl", cpu, r, id, out, steps, <<>>)
    IN  /\ UNCHANGED <<mon_domains, msr, nenv>>
        /\ IF id < 0
           THEN /\ UNCHANGED <<ctrl_domains, heap>>
                /\ ev' = E("no_id", <<>>)
           ELSE IF f.hdr = 0
           THEN /\ UNCHANGED <<ctrl_domains, heap>>
                /\ ev' = E("no_domain", <<"resctrl_offline_ctrl_domain">>)
           ELSE IF cpumask_empty(cleared)
           THEN /\ ctrl_domains' = [ctrl_domains EXCEPT ![r] = list_del_rcu(@, f.hdr)]
                /\ heap' = ctrl_domain_free(heap, d.addr)
                /\ ev' = E("torn_down", CtrlTeardownSteps(d))
           ELSE /\ ctrl_domains' = [ctrl_domains EXCEPT ![r][f.hdr].cpu_mask = cleared]
                /\ UNCHANGED heap
                /\ ev' = E("left", <<>>)

\* domain_remove_cpu_ctrl(cpu, r)
domain_remove_cpu_ctrl(cpu, r) ==
    LET rec == res[r]
        id  == get_domain_id_from_scope(cpu, rec.ctrl_scope)
        f   == resctrl_find_domain(ctrl_domains[r], id)
        d   == ctrl_domains[r][f.hdr]
        cleared == d.cpu_mask \ {cpu}
        E(out, steps) == Event("domain_remove_cpu_ctrl", cpu, r, id, out, steps, <<>>)
    IN  /\ UNCHANGED <<mon_domains, msr, nenv>>
        /\ IF id < 0
           THEN /\ UNCHANGED <<ctrl_domains, heap>>
                /\ ev' = E("no_id", <<>>)
           ELSE IF f.hdr = 0
           THEN /\ UNCHANGED <<ctrl_domains, heap>>
                /\ ev' = E("no_domain", <<>>)
           ELSE IF cpumask_empty(cleared)
           THEN /\ ctrl_domains' = [ctrl_domains EXCEPT ![r] = list_del_rcu(@, f.hdr)]
                /\ heap' = ctrl_domain_free(heap, d.addr)
                /\ ev' = E("torn_down", CtrlTeardownSteps(d))
           ELSE /\ ctrl_domains' = [ctrl_domains EXCEPT ![r][f.hdr].cpu_mask = cleared]
                /\ UNCHANGED heap
                /\ ev' = E("left", <<>>)

\* domain_remove_cpu_mon(cpu, r)
domain_remove_cpu_mon(cpu, r) ==
    LET rec == res[r]
        id  == get_domain_id_from_scope(cpu, rec.mon_scope)
        f   == resctrl_find_domain(mon_domains[r], id)
        d   == mon_domains[r][f.hdr]
        cleared == d.cpu_mask \ {cpu}
        E(out, steps) == Event("domain_remove_cpu_mon", cpu, r, id, out, steps, <<>>)
    IN  /\ UNCHANGED <<ctrl_domains, msr, nenv>>
        /\ IF id < 0
           THEN /\ UNCHANGED <<mon_domains, heap>>
                /\ ev' = E("no_id", <<>>)
           ELSE IF f.hdr = 0
           THEN /\ UNCHANGED <<mon_domains, heap>>
                /\ ev' = E("no_domain", <<>>)
           ELSE IF cpumask_empty(cleared)
           THEN /\ mon_domains' = [mon_domains EXCEPT ![r] = list_del_rcu(@, f.hdr)]
                /\ heap' = mon_domain_free(heap, d.addr)
                /\ ev' = E("torn_down", <<"resctrl_offline_mon_domain", "list_del_rcu",
                                          "synchronize_rcu", "mon_domain_free">>)
           ELSE /\ mon_domains' = [mon_domains EXCEPT ![r][f.hdr].cpu_mask = cleared]
                /\ UNCHANGED heap
                /\ ev' = E("left", <<>>)

---------------------------------------------------------------------------
(* Hotplug coordinator *)

\* Fault variant: the upper layer's hook runs before the tracking reset
resctrl_arch_online_cpu_hook_early ==
    <<"mutex_lock", "domain_add_cpu", "mutex_unlock",
      "resctrl_online_cpu", "clear_closid_rmid">>

\* Fault variant: the upper layer's hook runs after the removals
resctrl_arch_offline_cpu_hook_late ==
    <<"mutex_lock", "domain_remove_cpu", "mutex_unlock", "resctrl_offline_cpu",
      "clear_closid_rmid">>

\* Fault variant: the online handler does not take the writer lock
resctrl_arch_online_cpu_no_lock ==
    <<"domain_add_cpu", "mutex_unlock", "clear_closid_rmid", "resctrl_online_cpu">>

\* resctrl_arch_online_cpu(): its statements in program order
resctrl_arch_online_cpu ==
    <<"mutex_lock", "domain_add_cpu", "mutex_unlock",
      "clear_closid_rmid", "resctrl_online_cpu">>

\* resctrl_arch_offline_cpu(): its statements in program order
resctrl_arch_offline_cpu ==
    <<"resctrl_offline_cpu", "mutex_lock", "domain_remove_cpu", "mutex_unlock",
      "clear_closid_rmid">>

\* Fault variant: monitor, then control
domain_cpu_calls_mon_first(r) ==
    (IF res[r].mon_capable THEN <<[k |-> "mon", rid |-> r]>> ELSE <<>>)
    \o (IF res[r].alloc_capable THEN <<[k |-> "ctrl", rid |-> r]>> ELSE <<>>)

\* domain_add_cpu() / domain_remove_cpu() for one resource: control, then monitor
domain_cpu_calls(r) ==
    (IF res[r].alloc_capable THEN <<[k |-> "ctrl", rid |-> r]>> ELSE <<>>)
    \o (IF res[r].mon_capable THEN <<[k |-> "mon", rid |-> r]>> ELSE <<>>)

\* for_each_capable_rdt_resource(r): the calls one handler makes, in order
RECURSIVE calls_from(_)
calls_from(r) ==
    IF r > Len(ResNames) THEN <<>> ELSE domain_cpu_calls(r) \o calls_from(r + 1)

Calls == calls_from(1)

Idle(up) == [h |-> "none", ip |-> 0, i |-> 0, up |-> up]

Program(h) == IF h = "online" THEN resctrl_arch_online_cpu ELSE resctrl_arch_offline_cpu

\* The statement cpu c's handler is about to execute
Stmt(c) == IF pc[c].h = "none" THEN "none" ELSE Program(pc[c].h)[pc[c].ip]

\* The position after the current statement; the handler returns after its last
NextStmt(p) ==
    IF p.ip = Len(Program(p.h)) THEN Idle(p.h = "online")
    ELSE [p EXCEPT !.ip = p.ip + 1, !.i = 1]

\* The position after call i of the resource loop
NextCall(p) ==
    IF p.i < Len(Calls) THEN [p EXCEPT !.i = p.i + 1] ELSE NextStmt(p)

InFlight == {c \in Cpus : pc[c].h # "none"}

Reserved == [cur_closid |-> RESCTRL_RESERVED_CLOSID, cur_rmid |-> RESCTRL_RESERVED_RMID,
             default_closid |-> RESCTRL_RESERVED_CLOSID,
             default_rmid |-> RESCTRL_RESERVED_RMID]

ReservedAssoc == [rmid |-> RESCTRL_RESERVED_RMID, closid |-> RESCTRL_RESERVED_CLOSID]

\* A step of a handler
Step(e, r, out) == [e |-> e, rid |-> r, out |-> out]

\* What __resctrl_sched_in() leaves on a cpu that ran a task of a non-default group
InUse == [cur_closid |-> 1, cur_rmid |-> 1, default_closid |-> 1, default_rmid |-> 1]

InUseAssoc == [rmid |-> 1, closid |-> 1]

\* A statement without outcome, and an add call with whether it succeeded
Log(c, e, r) == hist' = [hist EXCEPT ![c] = Append(@, Step(e, r, "done"))]

LogCall(c, e, r) ==
    hist' = [hist EXCEPT ![c] = Append(@, Step(e, r, IF ev'.out \in {"joined", "created"} THEN "ok" ELSE "err"))]

NoEvent == Event("none", NoCpu, 0, 0, "none", <<>>, <<>>)

\* The hotplug core invokes the online callback of an offline cpu; it runs one
\* hotplug operation at a time (cpu_hotplug_lock held for writing). The cpu's
\* PQR_ASSOC holds what firmware or an earlier kernel left in it.
CpuhpOnline(c) ==
    /\ pc[c].h = "none" /\ ~pc[c].up
    /\ InFlight = {}
    /\ pc' = [pc EXCEPT ![c] = [h |-> "online", ip |-> 1, i |-> 1, up |-> FALSE]]
    /\ hist' = [hist EXCEPT ![c] = <<>>]
    /\ \E assoc \in {ReservedAssoc, InUseAssoc} :
           pqr_assoc' = [pqr_assoc EXCEPT ![c] = assoc]
    /\ ev' = NoEvent
    /\ UNCHANGED <<res, ctrl_domains, mon_domains, heap, msr, domain_list_lock,
                   pqr_state, nenv>>
    /\ UNCHANGED optvars
    /\ UNCHANGED stepvars

\* The hotplug core invokes the offline callback of an online cpu. The cpu's
\* tracking state is what the scheduler (__resctrl_sched_in()) left while the
\* cpu ran tasks: the reserved values or those of a non-default group.
CpuhpOffline(c) ==
    /\ pc[c].h = "none" /\ pc[c].up
    /\ InFlight = {}
    /\ pc' = [pc EXCEPT ![c] = [h |-> "offline", ip |-> 1, i |-> 1, up |-> TRUE]]
    /\ hist' = [hist EXCEPT ![c] = <<>>]
    /\ \E st \in {<<Reserved, ReservedAssoc>>, <<InUse, InUseAssoc>>} :
           /\ pqr_state' = [pqr_state EXCEPT ![c] = st[1]]
           /\ pqr_assoc' = [pqr_assoc EXCEPT ![c] = st[2]]
    /\ ev' = NoEvent
    /\ UNCHANGED <<res, ctrl_domains, mon_domains, heap, msr, domain_list_lock,
                   nenv>>
    /\ UNCHANGED optvars
    /\ UNCHANGED stepvars

\* mutex_lock(&domain_list_lock)
mutex_lock(c) ==
    /\ Stmt(c) = "mutex_lock"
    /\ domain_list_lock = NoCpu
    /\ domain_list_lock' = c
    /\ pc' = [pc EXCEPT ![c] = NextStmt(@)]
    /\ Log(c, "mutex_lock", 0)
    /\ ev' = NoEvent
    /\ UNCHANGED <<res, ctrl_domains, mon_domains, heap, msr,
                   pqr_state, pqr_assoc, nenv>>
    /\ UNCHANGED optvars
    /\ UNCHANGED stepvars

\* mutex_unlock(&domain_list_lock)
mutex_unlock(c) ==
    /\ Stmt(c) = "mutex_unlock"
    /\ domain_list_lock' = IF domain_list_lock = c THEN NoCpu ELSE domain_list_lock
    /\ pc' = [pc EXCEPT ![c] = NextStmt(@)]
    /\ Log(c, "mutex_unlock", 0)
    /\ ev' = NoEvent
    /\ UNCHANGED <<res, ctrl_domains, mon_domains, heap, msr,
                   pqr_state, pqr_assoc, nenv>>
    /\ UNCHANGED optvars
    /\ UNCHANGED stepvars

\* One call of the online handler's resource loop: domain_add_cpu_ctrl()
OnlineAddCtrl(c) ==
    /\ Stmt(c) = "domain_add_cpu"
    /\ Calls[pc[c].i].k = "ctrl"
    /\ \E fail \in CtrlFails(c, Calls[pc[c].i].rid) :
           domain_add_cpu_ctrl(c, Calls[pc[c].i].rid, fail)
    /\ pc' = [pc EXCEPT ![c] = NextCall(@)]
    /\ LogCall(c, "domain_add_cpu_ctrl", Calls[pc[c].i].rid)
    /\ UNCHANGED <<res, domain_list_lock, pqr_state, pqr_assoc>>
    /\ UNCHANGED optvars
    /\ UNCHANGED stepvars

\* One call of the online handler's resource loop: domain_add_cpu_mon()
OnlineAddMon(c) ==
    /\ Stmt(c) = "domain_add_cpu"
    /\ Calls[pc[c].i].k = "mon"
    /\ \E fail \in MonFails(c, Calls[pc[c].i].rid) :
           domain_add_cpu_mon(c, Calls[pc[c].i].rid, fail)
    /\ pc' = [pc EXCEPT ![c] = NextCall(@)]
    /\ LogCall(c, "domain_add_cpu_mon", Calls[pc[c].i].rid)
    /\ UNCHANGED <<res, domain_list_lock, pqr_state, pqr_assoc>>
    /\ UNCHANGED optvars
    /\ UNCHANGED stepvars

\* One call of the offline handler's resource loop: domain_remove_cpu_ctrl()
OfflineRemoveCtrl(c) ==
    /\ Stmt(c) = "domain_remove_cpu"
    /\ Calls[pc[c].i].k = "ctrl"
    /\ domain_remove_cpu_ctrl(c, Calls[pc[c].i].rid)
    /\ pc' = [pc EXCEPT ![c] = NextCall(@)]
    /\ Log(c, "domain_remove_cpu_ctrl", Calls[pc[c].i].rid)
    /\ UNCHANGED <<res, domain_list_lock, pqr_state, pqr_assoc>>
    /\ UNCHANGED optvars
    /\ UNCHANGED stepvars

\* One call of the offline handler's resource loop: domain_remove_cpu_mon()
OfflineRemoveMon(c) ==
    /\ Stmt(c) = "domain_remove_cpu"
    /\ Calls[pc[c].i].k = "mon"
    /\ domain_remove_cpu_mon(c, Calls[pc[c].i].rid)
    /\ pc' = [pc EXCEPT ![c] = NextCall(@)]
    /\ Log(c, "domain_remove_cpu_mon", Calls[pc[c].i].rid)
    /\ UNCHANGED <<res, domain_list_lock, pqr_state, pqr_assoc>>
    /\ UNCHANGED optvars
    /\ UNCHANGED stepvars

\* Fault variant: the reset is applied to every cpu's state and register
clear_closid_rmid_all(c) ==
    /\ Stmt(c) = "clear_closid_rmid"
    /\ pqr_state' = [o \in Cpus |-> Reserved]
    /\ pqr_assoc' = [o \in Cpus |-> ReservedAssoc]
    /\ pc' = [pc EXCEPT ![c] = NextStmt(@)]
    /\ Log(c, "clear_closid_rmid", 0)
    /\ ev' = NoEvent
    /\ UNCHANGED <<res, ctrl_domains, mon_domains, heap, msr, domain_list_lock,
                   nenv>>
    /\ UNCHANGED optvars
    /\ UNCHANGED stepvars

\* clear_closid_rmid(): reset the cpu's cached state and its PQR_ASSOC
clear_closid_rmid(c) ==
    /\ Stmt(c) = "clear_closid_rmid"
    /\ pqr_state' = [pqr_state EXCEPT ![c] = Reserved]
    /\ pqr_assoc' = [pqr_assoc EXCEPT ![c] = ReservedAssoc]
    /\ pc' = [pc EXCEPT ![c] = NextStmt(@)]
    /\ Log(c, "clear_closid_rmid", 0)
    /\ ev' = NoEvent
    /\ UNCHANGED <<res, ctrl_domains, mon_domains, heap, msr, domain_list_lock,
                   nenv>>
    /\ UNCHANGED optvars
    /\ UNCHANGED stepvars

\* resctrl_online_cpu(): the upper layer's per-cpu online hook
resctrl_online_cpu(c) ==
    /\ Stmt(c) = "resctrl_online_cpu"
    /\ pc' = [pc EXCEPT ![c] = NextStmt(@)]
    /\ Log(c, "resctrl_online_cpu", 0)
    /\ ev' = NoEvent
    /\ UNCHANGED <<res, ctrl_domains, mon_domains, heap, msr, domain_list_lock,
                   pqr_state, pqr_assoc, nenv>>
    /\ UNCHANGED optvars
    /\ UNCHANGED stepvars

\* resctrl_offline_cpu(): the upper layer's per-cpu offline hook
resctrl_offline_cpu(c) ==
    /\ Stmt(c) = "resctrl_offline_cpu"
    /\ pc' = [pc EXCEPT ![c] = NextStmt(@)]
    /\ Log(c, "resctrl_offline_cpu", 0)
    /\ ev' = NoEvent
    /\ UNCHANGED <<res, ctrl_domains, mon_domains, heap, msr, domain_list_lock,
                   pqr_state, pqr_assoc, nenv>>
    /\ UNCHANGED optvars
    /\ UNCHANGED stepvars

---------------------------------------------------------------------------
(* The layers above: quota updates and the scheduler *)

\* The values the upper layer writes besides the default
AltCtrl(rec) == IF rec.schema_fmt = "RESCTRL_SCHEMA_BITMAP" THEN 3 ELSE 50

\* resctrl_arch_update_one() + rdt_ctrl_update(): the upper layer sets one
\* class's quota of one domain and programs it; it holds cpus_read_lock(), so
\* no hotplug handler runs meanwhile
UpdateCtrlVal(r, n, closid) ==
    /\ InFlight = {}
    /\ nenv < MaxEnv
    /\ res[r].alloc_capable
    /\ n \in 1 .. Len(ctrl_domains[r])
    /\ closid \in 0 .. (res[r].num_closid - 1)
    /\ ctrl_domains[r][n].ctrl_val[closid] # AltCtrl(res[r])
    /\ LET cv == [ctrl_domains[r][n].ctrl_val EXCEPT ![closid] = AltCtrl(res[r])]
           ws == msr_update(res[r], cv, closid, closid + 1)
       IN  /\ ctrl_domains' = [ctrl_domains EXCEPT ![r][n].ctrl_val = cv]
           /\ msr' = [msr EXCEPT ![r][ctrl_domains[r][n].id] = wrmsrq(@, ws)]
           /\ ev' = Event("rdt_ctrl_update", NoCpu, r, ctrl_domains[r][n].id, "updated",
                          <<>>, ws)
    /\ nenv' = nenv + 1
    /\ UNCHANGED <<res, mon_domains, heap, domain_list_lock, pc, pqr_state, pqr_assoc,
                   hist>>
    /\ UNCHANGED optvars
    /\ UNCHANGED stepvars

---------------------------------------------------------------------------
(* The specification of the hotplug-driven registry *)

\* Cache instance ids of the topology
Ids == {get_cpu_cacheinfo_id(c, s) : c \in Cpus, s \in {"RESCTRL_L3_CACHE", "RESCTRL_L2_CACHE"}}
       \cap Nat

OptNames == <<"cmt", "mbmtotal", "mbmlocal", "l3cat", "l3cdp", "l2cat", "l2cdp",
              "mba", "smba", "bmec">>

InitOptions == [n \in 1 .. Len(OptNames) |->
                   [name |-> OptNames[n], force_off |-> FALSE, force_on |-> FALSE]]

\* No rdt_ctrl_update() is pending
NoParam == [rid |-> 0, n |-> 0, low |-> 0, high |-> 0]

\* No registry procedure is in progress statement by statement
WrIdle == [op |-> "none", ip |-> 0, cpu |-> NoCpu, rid |-> 0, id |-> 0, pos |-> 0,
           d |-> [addr |-> 0], linked |-> FALSE,
           syncing |-> FALSE, wait |-> {}, log |-> <<>>]

\* The reader is outside any RCU read-side critical section
RdIdle == [in |-> FALSE, kind |-> "none", rid |-> 0, cur |-> [addr |-> 0, id |-> 0],
           seen |-> "none"]

\* resctrl_arch_late_init() has returned 0 and the callbacks are registered
LateDone == [pc |-> "return", state |-> TRUE, ret |-> "0", linear |-> TRUE]

InitReg(p) ==
    /\ res = [r \in Rids |-> ProbedRes(p, r)]
    /\ ctrl_domains = [r \in Rids |-> <<>>]
    /\ mon_domains = [r \in Rids |-> <<>>]
    /\ heap = {}
    /\ msr = [r \in Rids |-> [id \in Ids |-> [i \in 0 .. (ProbedRes(p, r).num_closid - 1) |-> 0]]]
    /\ domain_list_lock = NoCpu
    /\ pc = [c \in Cpus |-> Idle(FALSE)]
    /\ pqr_state = [c \in Cpus |-> Reserved]
    /\ pqr_assoc = [c \in Cpus |-> ReservedAssoc]
    /\ hist = [c \in Cpus |-> <<>>]
    /\ ev = NoEvent
    /\ nenv = 0
    /\ msr_param = NoParam
    /\ wr = WrIdle
    /\ rd = RdIdle
    /\ plr_d = {}
    /\ torn = {}
    /\ late = LateDone

InitOptIdle ==
    /\ rdt_options = InitOptions
    /\ boot = [hw |-> {}, vendor |-> "none", vfm |-> "other", stepping |-> 0, str |-> <<>>]
    /\ bootpc = "done"
    /\ queried = [flag |-> "none", ret |-> FALSE]

Init == (\E p \in Platforms : InitReg(p)) /\ InitOptIdle

Next ==
    \/ \E c \in Cpus : CpuhpOnline(c)
    \/ \E c \in Cpus : CpuhpOffline(c)
    \/ \E c \in Cpus : mutex_lock(c)
    \/ \E c \in Cpus : mutex_unlock(c)
    \/ \E c \in Cpus : OnlineAddCtrl(c)
    \/ \E c \in Cpus : OnlineAddMon(c)
    \/ \E c \in Cpus : OfflineRemoveCtrl(c)
    \/ \E c \in Cpus : OfflineRemoveMon(c)
    \/ \E c \in Cpus : clear_closid_rmid(c)
    \/ \E c \in Cpus : resctrl_online_cpu(c)
    \/ \E c \in Cpus : resctrl_offline_cpu(c)
    \/ \E r \in Rids : \E n \in 1 .. Len(L3Id) : \E closid \in 0 .. 3 : UpdateCtrlVal(r, n, closid)

Spec == Init /\ [][Next]_vars

---------------------------------------------------------------------------
(* The registry procedures called directly, in any order and for any cpu, as
   their contract allows: the caller holds domain_list_lock *)

RegAddCtrl(c, r) ==
    /\ res[r].alloc_capable
    /\ \E fail \in CtrlFails(c, r) : domain_add_cpu_ctrl(c, r, fail)
    /\ UNCHANGED <<res, domain_list_lock, pc, pqr_state, pqr_assoc, hist>>
    /\ UNCHANGED optvars
    /\ UNCHANGED stepvars

RegAddMon(c, r) ==
    /\ res[r].mon_capable
    /\ \E fail \in MonFails(c, r) : domain_add_cpu_mon(c, r, fail)
    /\ UNCHANGED <<res, domain_list_lock, pc, pqr_state, pqr_assoc, hist>>
    /\ UNCHANGED optvars
    /\ UNCHANGED stepvars

RegRemoveCtrl(c, r) ==
    /\ res[r].alloc_capable
    /\ domain_remove_cpu_ctrl(c, r)
    /\ UNCHANGED <<res, domain_list_lock, pc, pqr_state, pqr_assoc, hist>>
    /\ UNCHANGED optvars
    /\ UNCHANGED stepvars

RegRemoveMon(c, r) ==
    /\ res[r].mon_capable
    /\ domain_remove_cpu_mon(c, r)
    /\ UNCHANGED <<res, domain_list_lock, pc, pqr_state, pqr_assoc, hist>>
    /\ UNCHANGED optvars
    /\ UNCHANGED stepvars

\* The direct calls exercise the resource that has both kinds of domain
RegRids == {RDT_RESOURCE_L3}

NextReg ==
    \/ \E c \in Cpus, r \in RegRids : RegAddCtrl(c, r)
    \/ \E c \in Cpus, r \in RegRids : RegAddMon(c, r)
    \/ \E c \in Cpus, r \in RegRids : RegRemoveCtrl(c, r)
    \/ \E c \in Cpus, r \in RegRids : RegRemoveMon(c, r)
    \/ \E r \in RegRids : \E n \in 1 .. Len(L3Id) : \E closid \in 0 .. 3 : UpdateCtrlVal(r, n, closid)

SpecReg == Init /\ [][NextReg]_vars

---------------------------------------------------------------------------
(* Handlers of different cpus running concurrently: only domain_list_lock
   orders them. Any two cpus may run their handlers at the same time. *)

\* The online callback of an offline cpu starts, whatever the other cpus do
ConcOnline(c) ==
    /\ pc[c].h = "none" /\ ~pc[c].up
    /\ Cardinality(InFlight) < 2
    /\ pc' = [pc EXCEPT ![c] = [h |-> "online", ip |-> 1, i |-> 1, up |-> FALSE]]
    /\ hist' = [hist EXCEPT ![c] = <<>>]
    /\ ev' = NoEvent
    /\ UNCHANGED <<res, ctrl_domains, mon_domains, heap, msr, domain_list_lock,
                   pqr_state, pqr_assoc, nenv>>
    /\ UNCHANGED optvars
    /\ UNCHANGED stepvars

\* The offline callback of an online cpu starts, whatever the other cpus do
ConcOffline(c) ==
    /\ pc[c].h = "none" /\ pc[c].up
    /\ Cardinality(InFlight) < 2
    /\ pc' = [pc EXCEPT ![c] = [h |-> "offline", ip |-> 1, i |-> 1, up |-> TRUE]]
    /\ hist' = [hist EXCEPT ![c] = <<>>]
    /\ ev' = NoEvent
    /\ UNCHANGED <<res, ctrl_domains, mon_domains, heap, msr, domain_list_lock,
                   pqr_state, pqr_assoc, nenv>>
    /\ UNCHANGED optvars
    /\ UNCHANGED stepvars

NextConc ==
    \/ \E c \in Cpus : ConcOnline(c)
    \/ \E c \in Cpus : ConcOffline(c)
    \/ \E c \in Cpus : mutex_lock(c)
    \/ \E c \in Cpus : mutex_unlock(c)
    \/ \E c \in Cpus : OnlineAddCtrl(c)
    \/ \E c \in Cpus : OnlineAddMon(c)
    \/ \E c \in Cpus : OfflineRemoveCtrl(c)
    \/ \E c \in Cpus : OfflineRemoveMon(c)
    \/ \E c \in Cpus : clear_closid_rmid(c)
    \/ \E c \in Cpus : resctrl_online_cpu(c)
    \/ \E c \in Cpus : resctrl_offline_cpu(c)

SpecConc == Init /\ [][NextConc]_vars

---------------------------------------------------------------------------
(* The registry with a record of the control domains it has freed *)

\* domain_remove_cpu_ctrl() as a step of its own; a teardown is recorded
ReuseRemoveCtrl(c, r) ==
    LET id == get_domain_id_from_scope(c, res[r].ctrl_scope)
        f  == resctrl_find_domain(ctrl_domains[r], id)
    IN  /\ res[r].alloc_capable
        /\ domain_remove_cpu_ctrl(c, r)
        /\ torn' = IF id >= 0 /\ f.hdr # 0 /\ cpumask_empty(ctrl_domains[r][f.hdr].cpu_mask \ {c})
                   THEN torn \cup {[rid |-> r, id |-> id,
                                    ctrl_val |-> ctrl_domains[r][f.hdr].ctrl_val]}
                   ELSE torn
        /\ UNCHANGED <<res, domain_list_lock, pc, pqr_state, pqr_assoc, hist>>
        /\ UNCHANGED <<msr_param, wr, rd, plr_d, late>>
        /\ UNCHANGED optvars

NextReuse ==
    \/ \E c \in Cpus, r \in RegRids : RegAddCtrl(c, r)
    \/ \E c \in Cpus, r \in RegRids : ReuseRemoveCtrl(c, r)
    \/ \E r \in RegRids : \E n \in 1 .. Len(L3Id) : \E closid \in 0 .. 3 : UpdateCtrlVal(r, n, closid)

SpecReuse == Init /\ [][NextReuse]_vars

---------------------------------------------------------------------------
(* Hotplug with the scheduler switching groups on the online cpus *)

\* __resctrl_sched_in() on an online cpu: a task of a non-default group is
\* switched in; the cpu's cached state and its PQR_ASSOC change
resctrl_sched_in(c) ==
    /\ pc[c] = Idle(TRUE)
    /\ nenv < MaxEnv
    /\ pqr_state[c] # InUse
    /\ pqr_state' = [pqr_state EXCEPT ![c] = InUse]
    /\ pqr_assoc' = [pqr_assoc EXCEPT ![c] = InUseAssoc]
    /\ nenv' = nenv + 1
    /\ UNCHANGED <<res, ctrl_domains, mon_domains, heap, msr, domain_list_lock, pc, hist, ev>>
    /\ UNCHANGED optvars
    /\ UNCHANGED stepvars

NextPqr ==
    \/ \E c \in Cpus : CpuhpOnline(c)
    \/ \E c \in Cpus : CpuhpOffline(c)
    \/ \E c \in Cpus : mutex_lock(c)
    \/ \E c \in Cpus : mutex_unlock(c)
    \/ \E c \in Cpus : OnlineAddCtrl(c)
    \/ \E c \in Cpus : OnlineAddMon(c)
    \/ \E c \in Cpus : OfflineRemoveCtrl(c)
    \/ \E c \in Cpus : OfflineRemoveMon(c)
    \/ \E c \in Cpus : clear_closid_rmid(c)
    \/ \E c \in Cpus : resctrl_online_cpu(c)
    \/ \E c \in Cpus : resctrl_offline_cpu(c)
    \/ \E c \in Cpus : resctrl_sched_in(c)

SpecPqr == Init /\ [][NextPqr]_vars

---------------------------------------------------------------------------
(* The register programmer driven by update requests *)

\* How many update requests are issued
MaxUpd == 1

\* The quotas the upper layer asks for: it validates them against the
\* resource's limits and rounds bandwidths to the granularity
QuotaVals(rec) ==
    IF rec.schema_fmt = "RESCTRL_SCHEMA_BITMAP" THEN {1, 3, 2 ^ rec.cbm_len - 1}
    ELSE {rec.min_bw, rec.min_bw + rec.bw_gran, rec.max_bw}

\* The upper layer stores new quotas for the classes [low, high) of domain n
\* (v for class low, w for the others) and asks for them to be programmed:
\* struct msr_param { res, dom, low, high }
resctrl_arch_update_domains(r, n, low, high, v, w) ==
    /\ msr_param = NoParam
    /\ nenv < MaxUpd
    /\ res[r].alloc_capable
    /\ n \in 1 .. Len(ctrl_domains[r])
    /\ 0 <= low /\ low < high /\ high <= res[r].num_closid
    /\ ctrl_domains' = [ctrl_domains EXCEPT ![r][n].ctrl_val =
                           [i \in DOMAIN @ |-> IF i = low THEN v
                                               ELSE IF low < i /\ i < high THEN w ELSE @[i]]]
    /\ msr_param' = [rid |-> r, n |-> n, low |-> low, high |-> high]
    /\ nenv' = nenv + 1
    /\ UNCHANGED <<res, mon_domains, heap, msr, domain_list_lock, pc, pqr_state, pqr_assoc,
                   hist, ev, wr, rd, plr_d, torn, late>>
    /\ UNCHANGED optvars

\* rdt_ctrl_update(m): hw_res->msr_update(m)
rdt_ctrl_update ==
    /\ msr_param # NoParam
    /\ LET m == msr_param
           d == ctrl_domains[m.rid][m.n]
       IN  msr' = [msr EXCEPT ![m.rid][d.id] =
                       wrmsrq(@, msr_update(res[m.rid], d.ctrl_val, m.low, m.high))]
    /\ msr_param' = NoParam
    /\ UNCHANGED <<res, ctrl_domains, mon_domains, heap, domain_list_lock, pc, pqr_state,
                   pqr_assoc, hist, ev, nenv, wr, rd, plr_d, torn, late>>
    /\ UNCHANGED optvars

NextMsr ==
    \/ \E r \in Rids : RegAddCtrl(0, r)
    \/ \E r \in Rids : \E n \in 1 .. 1 : \E low \in 0 .. 3, high \in 1 .. 4 :
           \E v \in QuotaVals(res[r]), w \in QuotaVals(res[r]) :
               resctrl_arch_update_domains(r, n, low, high, v, w)
    \/ rdt_ctrl_update

SpecMsr == Init /\ [][NextMsr]_vars

---------------------------------------------------------------------------
(* The registry procedures statement by statement, with a lock-free reader of
   the domain lists beside them. The caller holds domain_list_lock, so one
   procedure runs at a time. *)

\* The resource whose lists are walked: the one with both kinds of domain
RcuRid == RDT_RESOURCE_L3

\* Fault variant: the new domain is linked right after its allocation
domain_add_cpu_ctrl_stmts_link_early ==
    <<"kzalloc_node", "list_add_tail_rcu", "hdr_init", "cpumask_set_cpu",
      "rdt_domain_reconfigure_cdp", "domain_setup_ctrlval", "resctrl_online_ctrl_domain",
      "list_del_rcu", "synchronize_rcu", "ctrl_domain_free">>

\* domain_add_cpu_ctrl() after the lookup found no domain, in program order;
\* the statements from list_del_rcu on are the body of `if (err)`
domain_add_cpu_ctrl_stmts ==
    <<"kzalloc_node", "hdr_init", "cpumask_set_cpu", "rdt_domain_reconfigure_cdp",
      "domain_setup_ctrlval", "list_add_tail_rcu", "resctrl_online_ctrl_domain",
      "list_del_rcu", "synchronize_rcu", "ctrl_domain_free">>

\* domain_add_cpu_mon() after the lookup found no domain
domain_add_cpu_mon_stmts ==
    <<"kzalloc_node", "hdr_init", "get_cpu_cacheinfo_level", "cpumask_set_cpu",
      "arch_mon_domain_online", "arch_domain_mbm_alloc", "list_add_tail_rcu",
      "resctrl_online_mon_domain", "list_del_rcu", "synchronize_rcu", "mon_domain_free">>

\* Fault variant: the teardown frees without waiting for a grace period
domain_remove_cpu_ctrl_stmts_no_sync ==
    <<"cpumask_clear_cpu", "resctrl_offline_ctrl_domain", "list_del_rcu",
      "plr_clear", "ctrl_domain_free">>

\* Fault variant: the domain is unlinked before the offline-domain hook runs
domain_remove_cpu_ctrl_stmts_unlink_first ==
    <<"cpumask_clear_cpu", "list_del_rcu", "resctrl_offline_ctrl_domain",
      "synchronize_rcu", "plr_clear", "ctrl_domain_free">>

\* domain_remove_cpu_ctrl() after the lookup found the domain; the statements
\* after cpumask_clear_cpu are the body of `if (cpumask_empty(...))`
domain_remove_cpu_ctrl_stmts ==
    <<"cpumask_clear_cpu", "resctrl_offline_ctrl_domain", "list_del_rcu",
      "synchronize_rcu", "plr_clear", "ctrl_domain_free">>

\* domain_remove_cpu_mon() after the lookup found the domain
domain_remove_cpu_mon_stmts ==
    <<"cpumask_clear_cpu", "resctrl_offline_mon_domain", "list_del_rcu",
      "synchronize_rcu", "mon_domain_free">>

WrProgram(op) ==
    CASE op = "add_ctrl" -> domain_add_cpu_ctrl_stmts
      [] op = "add_mon" -> domain_add_cpu_mon_stmts
      [] op = "remove_ctrl" -> domain_remove_cpu_ctrl_stmts
      [] OTHER -> domain_remove_cpu_mon_stmts

\* The statement the procedure is about to execute
WrStmt == IF wr.op = "none" THEN "none" ELSE WrProgram(wr.op)[wr.ip]

WrKind == IF wr.op \in {"add_ctrl", "remove_ctrl"} THEN "ctrl" ELSE "mon"

\* The list the procedure works on
WrList == IF WrKind = "ctrl" THEN ctrl_domains[wr.rid] ELSE mon_domains[wr.rid]

\* The position of a statement in the procedure's program (0: not in it)
StmtPos(name) ==
    IF \E i \in 1 .. Len(WrProgram(wr.op)) : WrProgram(wr.op)[i] = name
    THEN CHOOSE i \in 1 .. Len(WrProgram(wr.op)) : WrProgram(wr.op)[i] = name
    ELSE 0

\* The list with the entry at d's address replaced by d
Put(list, d) == [n \in 1 .. Len(list) |-> IF list[n].addr = d.addr THEN d ELSE list[n]]

\* The entries of the list at this address
AtAddr(list, addr) == {n \in 1 .. Len(list) : list[n].addr = addr}

\* What kzalloc_node() returns: zero-filled memory
ZeroDomain(kind, addr) ==
    IF kind = "ctrl"
    THEN [id |-> 0, cpu_mask |-> {}, addr |-> addr, ctrl_val |-> <<>>, plr |-> FALSE]
    ELSE [id |-> 0, cpu_mask |-> {}, addr |-> addr, ci_id |-> 0,
          arch_mbm_total |-> FALSE, arch_mbm_local |-> FALSE]

\* The state variables the statements leave alone
wrfixed == <<res, domain_list_lock, pc, pqr_state, pqr_assoc, hist, ev, nenv, msr_param, torn, late>>

\* The procedure's list becomes list2
SetList(list2) ==
    IF WrKind = "ctrl"
    THEN ctrl_domains' = [ctrl_domains EXCEPT ![wr.rid] = list2] /\ UNCHANGED mon_domains
    ELSE mon_domains' = [mon_domains EXCEPT ![wr.rid] = list2] /\ UNCHANGED ctrl_domains

\* The current statement is done: the object is d2, the procedure goes on at
\* statement ip2 or returns (ip2 = 0)
WrDone(d2, linked2, ip2) ==
    wr' = IF ip2 = 0 THEN [WrIdle EXCEPT !.log = Append(wr.log, WrStmt)]
          ELSE [wr EXCEPT !.d = d2, !.linked = linked2, !.ip = ip2,
                          !.syncing = FALSE, !.wait = {},
                          !.log = Append(wr.log, WrStmt)]

\* The object is d2 from now on, in the list too if it is linked
WrUpdate(d2, ip2) ==
    /\ WrDone(d2, wr.linked, ip2)
    /\ SetList(IF wr.linked THEN Put(WrList, d2) ELSE WrList)

\* The counter-array allocations that can fail
MbmFails(r) ==
    {"none"} \cup (IF res[r].mbm_total THEN {"mbm_total"} ELSE {})
             \cup (IF res[r].mbm_local THEN {"mbm_local"} ELSE {})

\* domain_add_cpu_ctrl() / domain_add_cpu_mon() up to the lookup: a cpu whose
\* domain exists joins it, otherwise the creation starts
WrAdd(kind, c, r) ==
    LET list == IF kind = "ctrl" THEN ctrl_domains[r] ELSE mon_domains[r]
        id   == get_domain_id_from_scope(c, IF kind = "ctrl" THEN res[r].ctrl_scope
                                            ELSE res[r].mon_scope)
        f    == resctrl_find_domain(list, id)
        join == [list EXCEPT ![f.hdr].cpu_mask = cpumask_set_cpu(c, @)]
    IN  /\ wr.op = "none"
        /\ IF kind = "ctrl" THEN res[r].alloc_capable ELSE res[r].mon_capable
        /\ id >= 0
        /\ \A n \in 1 .. Len(list) : c \notin list[n].cpu_mask
        /\ IF f.hdr # 0
           THEN /\ wr' = [WrIdle EXCEPT !.log = <<"cpumask_set_cpu">>]
                /\ IF kind = "ctrl"
                   THEN ctrl_domains' = [ctrl_domains EXCEPT ![r] = join]
                        /\ UNCHANGED mon_domains
                   ELSE mon_domains' = [mon_domains EXCEPT ![r] = join]
                        /\ UNCHANGED ctrl_domains
           ELSE /\ wr' = [WrIdle EXCEPT !.op = IF kind = "ctrl" THEN "add_ctrl" ELSE "add_mon",
                                        !.ip = 1, !.cpu = c, !.rid = r, !.id = id,
                                        !.pos = f.pos]
                /\ UNCHANGED <<ctrl_domains, mon_domains>>
        /\ UNCHANGED <<heap, msr, rd, plr_d>>
        /\ UNCHANGED wrfixed
        /\ UNCHANGED optvars

\* domain_remove_cpu_ctrl() / domain_remove_cpu_mon() up to the lookup
WrRemove(kind, c, r) ==
    LET list == IF kind = "ctrl" THEN ctrl_domains[r] ELSE mon_domains[r]
        id   == get_domain_id_from_scope(c, IF kind = "ctrl" THEN res[r].ctrl_scope
                                            ELSE res[r].mon_scope)
        f    == resctrl_find_domain(list, id)
    IN  /\ wr.op = "none"
        /\ IF kind = "ctrl" THEN res[r].alloc_capable ELSE res[r].mon_capable
        /\ id >= 0
        /\ f.hdr # 0 => c \in list[f.hdr].cpu_mask
        /\ wr' = IF f.hdr = 0 THEN WrIdle
                 ELSE [WrIdle EXCEPT !.op = IF kind = "ctrl" THEN "remove_ctrl" ELSE "remove_mon",
                                     !.ip = 1, !.cpu = c, !.rid = r, !.id = id,
                                     !.d = list[f.hdr], !.linked = TRUE]
        /\ UNCHANGED <<ctrl_domains, mon_domains, heap, msr, rd, plr_d>>
        /\ UNCHANGED wrfixed
        /\ UNCHANGED optvars

\* hw_dom = kzalloc_node(...); if (!hw_dom) return;
kzalloc_node ==
    /\ WrStmt = "kzalloc_node"
    /\ \E enomem \in BOOLEAN :
           IF enomem
           THEN WrDone(wr.d, FALSE, 0) /\ UNCHANGED heap
           ELSE LET addr == kzalloc(heap, WrKind, wr.rid, wr.id)
                IN  /\ WrDone(ZeroDomain(WrKind, addr), FALSE, wr.ip + 1)
                    /\ heap' = heap \cup {addr}
    /\ UNCHANGED <<ctrl_domains, mon_domains, msr, rd, plr_d>>
    /\ UNCHANGED wrfixed
    /\ UNCHANGED optvars

\* d->hdr.id = id; d->hdr.type = ...
hdr_init ==
    /\ WrStmt = "hdr_init"
    /\ WrUpdate([wr.d EXCEPT !.id = wr.id], wr.ip + 1)
    /\ UNCHANGED <<heap, msr, rd, plr_d>>
    /\ UNCHANGED wrfixed
    /\ UNCHANGED optvars

\* ci = get_cpu_cacheinfo_level(cpu, RESCTRL_L3_CACHE); d->ci_id = ci->id;
get_cpu_cacheinfo_level ==
    /\ WrStmt = "get_cpu_cacheinfo_level"
    /\ LET ci == get_cpu_cacheinfo_id(wr.cpu, "RESCTRL_L3_CACHE")
       IN  IF ci < 0 THEN WrUpdate(wr.d, StmtPos("mon_domain_free"))
           ELSE WrUpdate([wr.d EXCEPT !.ci_id = ci], wr.ip + 1)
    /\ UNCHANGED <<heap, msr, rd, plr_d>>
    /\ UNCHANGED wrfixed
    /\ UNCHANGED optvars

\* cpumask_set_cpu(cpu, &d->hdr.cpu_mask) of the new domain
WrCpumaskSetCpu ==
    /\ WrStmt = "cpumask_set_cpu"
    /\ WrUpdate([wr.d EXCEPT !.cpu_mask = cpumask_set_cpu(wr.cpu, @)], wr.ip + 1)
    /\ UNCHANGED <<heap, msr, rd, plr_d>>
    /\ UNCHANGED wrfixed
    /\ UNCHANGED optvars

\* rdt_domain_reconfigure_cdp(r) / arch_mon_domain_online(r, d): no effect on
\* the domain's fields modelled here
WrArchOnline ==
    /\ WrStmt \in {"rdt_domain_reconfigure_cdp", "arch_mon_domain_online"}
    /\ WrUpdate(wr.d, wr.ip + 1)
    /\ UNCHANGED <<heap, msr, rd, plr_d>>
    /\ UNCHANGED wrfixed
    /\ UNCHANGED optvars

\* if (domain_setup_ctrlval(r, d)) { ctrl_domain_free(hw_dom); return; }
WrDomainSetupCtrlval ==
    /\ WrStmt = "domain_setup_ctrlval"
    /\ \E enomem \in BOOLEAN :
           LET s == domain_setup_ctrlval(res[wr.rid], enomem)
           IN  IF s.err
               THEN WrUpdate(wr.d, StmtPos("ctrl_domain_free")) /\ UNCHANGED msr
               ELSE /\ WrUpdate([wr.d EXCEPT !.ctrl_val = s.ctrl_val], wr.ip + 1)
                    /\ msr' = [msr EXCEPT ![wr.rid][wr.id] = wrmsrq(@, s.wrote)]
    /\ UNCHANGED <<heap, rd, plr_d>>
    /\ UNCHANGED wrfixed
    /\ UNCHANGED optvars

\* if (arch_domain_mbm_alloc(r->num_rmid, hw_dom)) { mon_domain_free(hw_dom); return; }
WrArchDomainMbmAlloc ==
    /\ WrStmt = "arch_domain_mbm_alloc"
    /\ \E fail \in MbmFails(wr.rid) :
           LET a == arch_domain_mbm_alloc(res[wr.rid], fail)
           IN  IF a.err THEN WrUpdate(wr.d, StmtPos("mon_domain_free"))
               ELSE WrUpdate([wr.d EXCEPT !.arch_mbm_total = a.arch_mbm_total,
                                          !.arch_mbm_local = a.arch_mbm_local], wr.ip + 1)
    /\ UNCHANGED <<heap, msr, rd, plr_d>>
    /\ UNCHANGED wrfixed
    /\ UNCHANGED optvars

\* list_add_tail_rcu(&d->hdr.list, add_pos)
WrListAddTailRcu ==
    /\ WrStmt = "list_add_tail_rcu"
    /\ WrDone(wr.d, TRUE, wr.ip + 1)
    /\ SetList(list_add_tail_rcu(WrList, wr.d, wr.pos))
    /\ UNCHANGED <<heap, msr, rd, plr_d>>
    /\ UNCHANGED wrfixed
    /\ UNCHANGED optvars

\* err = resctrl_online_ctrl_domain(r, d) / resctrl_online_mon_domain(r, d);
\* the procedure returns unless the hook failed
WrOnlineDomain ==
    /\ WrStmt \in {"resctrl_online_ctrl_domain", "resctrl_online_mon_domain"}
    /\ \E err \in BOOLEAN : WrUpdate(wr.d, IF err THEN wr.ip + 1 ELSE 0)
    /\ UNCHANGED <<heap, msr, rd, plr_d>>
    /\ UNCHANGED wrfixed
    /\ UNCHANGED optvars

\* cpumask_clear_cpu(cpu, &d->hdr.cpu_mask); if (cpumask_empty(...)) {...}
WrCpumaskClearCpu ==
    /\ WrStmt = "cpumask_clear_cpu"
    /\ LET d2 == [wr.d EXCEPT !.cpu_mask = @ \ {wr.cpu}]
       IN  WrUpdate(d2, IF cpumask_empty(d2.cpu_mask) THEN wr.ip + 1 ELSE 0)
    /\ UNCHANGED <<heap, msr, rd, plr_d>>
    /\ UNCHANGED wrfixed
    /\ UNCHANGED optvars

\* resctrl_offline_ctrl_domain(r, d) / resctrl_offline_mon_domain(r, d)
WrOfflineDomain ==
    /\ WrStmt \in {"resctrl_offline_ctrl_domain", "resctrl_offline_mon_domain"}
    /\ WrUpdate(wr.d, wr.ip + 1)
    /\ UNCHANGED <<heap, msr, rd, plr_d>>
    /\ UNCHANGED wrfixed
    /\ UNCHANGED optvars

\* list_del_rcu(&d->hdr.list)
WrListDelRcu ==
    /\ WrStmt = "list_del_rcu"
    /\ WrDone(wr.d, FALSE, wr.ip + 1)
    /\ SetList(IF AtAddr(WrList, wr.d.addr) = {} THEN WrList
               ELSE list_del_rcu(WrList, CHOOSE n \in AtAddr(WrList, wr.d.addr) : TRUE))
    /\ UNCHANGED <<heap, msr, rd, plr_d>>
    /\ UNCHANGED wrfixed
    /\ UNCHANGED optvars

\* synchronize_rcu() is entered: the grace period has to outlast every reader
\* that is inside a read-side critical section now
SynchronizeRcuBegin ==
    /\ WrStmt = "synchronize_rcu" /\ ~wr.syncing
    /\ wr' = [wr EXCEPT !.syncing = TRUE, !.wait = IF rd.in THEN {"rd"} ELSE {}]
    /\ UNCHANGED <<ctrl_domains, mon_domains, heap, msr, rd, plr_d>>
    /\ UNCHANGED wrfixed
    /\ UNCHANGED optvars

\* synchronize_rcu() returns: those readers have left their critical sections
SynchronizeRcuEnd ==
    /\ WrStmt = "synchronize_rcu" /\ wr.syncing /\ wr.wait = {}
    /\ WrDone(wr.d, wr.linked, wr.ip + 1)
    /\ UNCHANGED <<ctrl_domains, mon_domains, heap, msr, rd, plr_d>>
    /\ UNCHANGED wrfixed
    /\ UNCHANGED optvars

\* if (d->plr) d->plr->d = NULL;
plr_clear ==
    /\ WrStmt = "plr_clear"
    /\ WrUpdate(wr.d, wr.ip + 1)
    /\ plr_d' = IF wr.d.plr THEN plr_d \ {wr.d.addr} ELSE plr_d
    /\ UNCHANGED <<heap, msr, rd>>
    /\ UNCHANGED wrfixed
    /\ UNCHANGED optvars

\* ctrl_domain_free(hw_dom) / mon_domain_free(hw_dom); return;
WrDomainFree ==
    /\ WrStmt \in {"ctrl_domain_free", "mon_domain_free"}
    /\ WrUpdate(wr.d, 0)
    /\ heap' = IF WrKind = "ctrl" THEN ctrl_domain_free(heap, wr.d.addr)
               ELSE mon_domain_free(heap, wr.d.addr)
    /\ UNCHANGED <<msr, rd, plr_d>>
    /\ UNCHANGED wrfixed
    /\ UNCHANGED optvars

\* The list a reader walks
RdList == IF rd.kind = "ctrl" THEN ctrl_domains[rd.rid] ELSE mon_domains[rd.rid]

\* What a load through this pointer hits: the object while its memory is
\* allocated, whether linked or in the hands of the running procedure
Obj(addr) ==
    IF addr \in heap /\ (AtAddr(RdList, addr) # {} \/ wr.d.addr = addr) THEN "ok"
    ELSE "freed"

\* The entry that follows the reader's cursor (0: the walk is at its end). An
\* unlinked entry keeps its next pointer: in the sorted list it leads to the
\* first entry with a larger id.
RdSucc ==
    LET after == IF rd.cur.addr = 0 THEN 1 .. Len(RdList)
                 ELSE {n \in 1 .. Len(RdList) : RdList[n].id > rd.cur.id}
    IN  IF rd.cur.addr # 0 /\ AtAddr(RdList, rd.cur.addr) # {}
        THEN (IF (CHOOSE n \in AtAddr(RdList, rd.cur.addr) : TRUE) < Len(RdList)
              THEN (CHOOSE n \in AtAddr(RdList, rd.cur.addr) : TRUE) + 1 ELSE 0)
        ELSE IF after = {} THEN 0
        ELSE CHOOSE n \in after : \A k \in after : n <= k

rdfixed == <<ctrl_domains, mon_domains, heap, msr, wr, plr_d>>

\* rcu_read_lock(); the walk starts at the list head
rcu_read_lock(kind) ==
    /\ ~rd.in
    /\ rd' = [RdIdle EXCEPT !.in = TRUE, !.kind = kind, !.rid = RcuRid]
    /\ UNCHANGED rdfixed
    /\ UNCHANGED wrfixed
    /\ UNCHANGED optvars

\* list_for_each_entry_rcu(): load the cursor's next pointer and step to that
\* entry, reading its header
RdNext ==
    /\ rd.in
    /\ IF rd.cur.addr # 0 /\ rd.cur.addr \notin heap
       THEN rd' = [rd EXCEPT !.seen = Obj(rd.cur.addr)]
       ELSE IF RdSucc = 0
       THEN rd' = [rd EXCEPT !.cur = [addr |-> 0, id |-> 0]]
       ELSE rd' = [rd EXCEPT !.cur = [addr |-> RdList[RdSucc].addr, id |-> RdList[RdSucc].id],
                             !.seen = "ok"]
    /\ UNCHANGED rdfixed
    /\ UNCHANGED wrfixed
    /\ UNCHANGED optvars

\* The reader loads the fields of the domain its cursor points to
RdDeref ==
    /\ rd.in /\ rd.cur.addr # 0
    /\ rd' = [rd EXCEPT !.seen = Obj(rd.cur.addr)]
    /\ UNCHANGED rdfixed
    /\ UNCHANGED wrfixed
    /\ UNCHANGED optvars

\* rcu_read_unlock(): a grace period waiting for this reader may end
rcu_read_unlock ==
    /\ rd.in
    /\ rd' = RdIdle
    /\ wr' = [wr EXCEPT !.wait = @ \ {"rd"}]
    /\ UNCHANGED <<ctrl_domains, mon_domains, heap, msr, plr_d>>
    /\ UNCHANGED wrfixed
    /\ UNCHANGED optvars

\* The upper layer pins a cache region in a linked control domain: d->plr is
\* set and the region points back at the domain. It runs with hotplug excluded.
PseudoLock(n) ==
    /\ wr.op = "none"
    /\ n \in 1 .. Len(ctrl_domains[RcuRid])
    /\ ~ctrl_domains[RcuRid][n].plr
    /\ ctrl_domains' = [ctrl_domains EXCEPT ![RcuRid][n].plr = TRUE]
    /\ plr_d' = plr_d \cup {ctrl_domains[RcuRid][n].addr}
    /\ UNCHANGED <<mon_domains, heap, msr, wr, rd>>
    /\ UNCHANGED wrfixed
    /\ UNCHANGED optvars

NextRcu ==
    \/ \E kind \in {"ctrl", "mon"}, c \in Cpus : WrAdd(kind, c, RcuRid)
    \/ \E kind \in {"ctrl", "mon"}, c \in Cpus : WrRemove(kind, c, RcuRid)
    \/ kzalloc_node
    \/ hdr_init
    \/ get_cpu_cacheinfo_level
    \/ WrCpumaskSetCpu
    \/ WrArchOnline
    \/ WrDomainSetupCtrlval
    \/ WrArchDomainMbmAlloc
    \/ WrListAddTailRcu
    \/ WrOnlineDomain
    \/ WrCpumaskClearCpu
    \/ WrOfflineDomain
    \/ WrListDelRcu
    \/ SynchronizeRcuBegin
    \/ SynchronizeRcuEnd
    \/ plr_clear
    \/ WrDomainFree
    \/ \E kind \in {"ctrl", "mon"} : rcu_read_lock(kind)
    \/ RdNext
    \/ RdDeref
    \/ rcu_read_unlock
    \/ \E n \in 1 .. 2 : PseudoLock(n)

SpecRcu == Init /\ [][NextRcu]_vars

---------------------------------------------------------------------------
(* Option override: the rdt= boot parameter and rdt_cpu_has() *)

\* Longest rdt= string of the model, in chunks
MaxStr == 4

\* A string is a sequence of chunks: the characters '=', '!' and ',' and whole
\* feature names; strcmp() of a token with an option name is equality with
\* the one-chunk string of that name
Chunks == {"=", "!", ",", "l3cat", "mba"}

RECURSIVE Strings(_)
Strings(n) ==
    IF n = 0 THEN {<<>>}
    ELSE Strings(n - 1) \cup {Append(t, ch) : t \in {u \in Strings(n - 1) : Len(u) = n - 1},
                                               ch \in Chunks}

\* .flag of the rdt_options[] entries
OptFlags == <<"X86_FEATURE_CQM_OCCUP_LLC", "X86_FEATURE_CQM_MBM_TOTAL",
              "X86_FEATURE_CQM_MBM_LOCAL", "X86_FEATURE_CAT_L3", "X86_FEATURE_CDP_L3",
              "X86_FEATURE_CAT_L2", "X86_FEATURE_CDP_L2", "X86_FEATURE_MBA",
              "X86_FEATURE_SMBA", "X86_FEATURE_BMEC">>

NUM_RDT_OPTIONS == Len(OptNames)

\* strsep(&str, ","): the token in front of the first ',' and what follows it
\* (more: a ',' was found, so another token follows)
RECURSIVE strsep(_)
strsep(str) ==
    IF str = <<>> THEN [tok |-> <<>>, rest |-> <<>>, more |-> FALSE]
    ELSE IF Head(str) = "," THEN [tok |-> <<>>, rest |-> Tail(str), more |-> TRUE]
    ELSE LET x == strsep(Tail(str))
         IN  [tok |-> <<Head(str)>> \o x.tok, rest |-> x.rest, more |-> x.more]

\* The first option from entry o on whose name equals tok (0: none)
RECURSIVE match_option(_, _, _)
match_option(opts, tok, o) ==
    IF o > NUM_RDT_OPTIONS THEN 0
    ELSE IF tok = <<opts[o].name>> THEN o
    ELSE match_option(opts, tok, o + 1)

\* The while loop of set_rdt_options() from the string str on
RECURSIVE set_rdt_options_loop(_, _)
set_rdt_options_loop(opts, str) ==
    LET x         == strsep(str)
        force_off == x.tok # <<>> /\ Head(x.tok) = "!"
        tok       == IF force_off THEN Tail(x.tok) ELSE x.tok
        o         == match_option(opts, tok, 1)
        done      == IF o = 0 THEN opts
                     ELSE IF force_off THEN [opts EXCEPT ![o].force_off = TRUE]
                     ELSE [opts EXCEPT ![o].force_on = TRUE]
    IN  IF x.more THEN set_rdt_options_loop(done, x.rest) ELSE done

\* set_rdt_options(): record force_off / force_on for every recognised name
set_rdt_options(opts, str) ==
    set_rdt_options_loop(opts, IF str # <<>> /\ Head(str) = "=" THEN Tail(str) ELSE str)

\* The entry of rdt_options[] with this flag (0: none)
RECURSIVE option_of_flag(_, _)
option_of_flag(flag, o) ==
    IF o > NUM_RDT_OPTIONS THEN 0
    ELSE IF OptFlags[o] = flag THEN o
    ELSE option_of_flag(flag, o + 1)

\* Fault variant: force_off is not looked at
rdt_cpu_has_no_off(hw, opts, flag) ==
    LET ret == flag \in hw
        o   == option_of_flag(flag, 1)
    IN  IF ~ret THEN ret
        ELSE IF o = 0 THEN ret
        ELSE IF opts[o].force_on THEN TRUE ELSE ret

\* Fault variant: no early return when the boot cpu lacks the feature
rdt_cpu_has_unconditional(hw, opts, flag) ==
    LET ret == flag \in hw
        o   == option_of_flag(flag, 1)
        off == IF opts[o].force_off THEN FALSE ELSE ret
    IN  IF o = 0 THEN ret
        ELSE IF opts[o].force_on THEN TRUE ELSE off

\* rdt_cpu_has(): the effective capability of a feature
rdt_cpu_has(hw, opts, flag) ==
    LET ret == flag \in hw
        o   == option_of_flag(flag, 1)
        off == IF opts[o].force_off THEN FALSE ELSE ret
        on  == IF opts[o].force_on THEN TRUE ELSE off
    IN  IF ~ret THEN ret
        ELSE IF o = 0 THEN ret
        ELSE on

\* __check_quirks_intel(): the options a model quirk forces off. (The
\* INTEL_HASWELL_X and INTEL_BROADWELL_X cases leave the option table alone.)
check_quirks_intel(opts, vfm, stepping) ==
    IF vfm = "INTEL_SKYLAKE_X"
    THEN IF stepping <= 4
         THEN set_rdt_options(opts, <<"!", "cmt", ",", "!", "mbmtotal", ",",
                                      "!", "mbmlocal", ",", "!", "l3cat">>)
         ELSE set_rdt_options(opts, <<"!", "l3cat">>)
    ELSE opts

\* check_quirks()
check_quirks(opts, b) ==
    IF b.vendor = "X86_VENDOR_INTEL" THEN check_quirks_intel(opts, b.vfm, b.stepping)
    ELSE opts

\* The machines the option handling is run on
Machines ==
    {[vendor |-> "X86_VENDOR_INTEL", vfm |-> "other", stepping |-> 0],
     [vendor |-> "X86_VENDOR_INTEL", vfm |-> "INTEL_SKYLAKE_X", stepping |-> 4],
     [vendor |-> "X86_VENDOR_INTEL", vfm |-> "INTEL_SKYLAKE_X", stepping |-> 5],
     [vendor |-> "X86_VENDOR_AMD", vfm |-> "other", stepping |-> 0]}

\* The feature bits the boot cpu may report, and the flags queried
QueryFlags == {"X86_FEATURE_CAT_L3", "X86_FEATURE_MBA", "X86_FEATURE_CQM_OCCUP_LLC"}

HwSets == SUBSET {"X86_FEATURE_CAT_L3", "X86_FEATURE_MBA"}

\* __setup("rdt", set_rdt_options): early parameter parsing
SetupRdt ==
    /\ bootpc = "setup"
    /\ rdt_options' = set_rdt_options(rdt_options, boot.str)
    /\ bootpc' = "quirks"
    /\ UNCHANGED <<boot, queried>>
    /\ UNCHANGED regvars
    /\ UNCHANGED stepvars

\* resctrl_arch_late_init(): check_quirks()
CheckQuirks ==
    /\ bootpc = "quirks"
    /\ rdt_options' = check_quirks(rdt_options, boot)
    /\ bootpc' = "probe"
    /\ UNCHANGED <<boot, queried>>
    /\ UNCHANGED regvars
    /\ UNCHANGED stepvars

\* A call of rdt_cpu_has(flag) during or after capability discovery
RdtCpuHas(flag) ==
    /\ bootpc = "probe"
    /\ queried' = [flag |-> flag, ret |-> rdt_cpu_has(boot.hw, rdt_options, flag)]
    /\ UNCHANGED <<rdt_options, boot, bootpc>>
    /\ UNCHANGED regvars
    /\ UNCHANGED stepvars

InitOpt ==
    /\ rdt_options = InitOptions
    /\ \E m \in Machines, hw \in HwSets, str \in Strings(MaxStr) :
           boot = [hw |-> hw, vendor |-> m.vendor, vfm |-> m.vfm,
                   stepping |-> m.stepping, str |-> str]
    /\ bootpc = "setup"
    /\ queried = [flag |-> "none", ret |-> FALSE]

NextOpt ==
    \/ SetupRdt
    \/ CheckQuirks
    \/ \E flag \in QueryFlags : RdtCpuHas(flag)

InitBoot == InitReg("intel") /\ InitOpt

SpecOpt == InitBoot /\ [][NextOpt]_vars

---------------------------------------------------------------------------
(* Top-level initialisation: resctrl_arch_late_init() *)

\* The CPUID leaves of the boot cpu b; linear: MBA_IS_LINEAR of CPUID.0x10.3
LateCpuid(b, linear) ==
    LET hw == Cpuid(IF b.vendor = "X86_VENDOR_INTEL" THEN "intel" ELSE "amd")
    IN  [hw EXCEPT !.mba.linear = linear]

\* get_mem_config(): the MBA entry of the table
get_mem_config(b, opts, linear, rec) ==
    IF ~rdt_cpu_has(b.hw, opts, "X86_FEATURE_MBA") THEN rec
    ELSE IF b.vendor = "X86_VENDOR_INTEL"
    THEN get_mem_config_intel(LateCpuid(b, linear).mba, rec)
    ELSE IF b.vendor = "X86_VENDOR_AMD"
    THEN rdt_get_mem_config_amd(LateCpuid(b, linear).mba, rec)
    ELSE rec

\* get_slow_mem_config(): the SMBA entry of the table
get_slow_mem_config(b, opts, linear, rec) ==
    IF ~rdt_cpu_has(b.hw, opts, "X86_FEATURE_SMBA") THEN rec
    ELSE IF b.vendor = "X86_VENDOR_AMD"
    THEN rdt_get_mem_config_amd(LateCpuid(b, linear).smba, rec)
    ELSE rec

\* get_rdt_alloc_resources(): entry r of the table after allocation discovery
\* (code and data prioritisation is left off)
get_rdt_alloc_resources(b, opts, linear, r, rec) ==
    IF "X86_FEATURE_RDT_A" \notin b.hw THEN rec
    ELSE CASE r = RDT_RESOURCE_L3 ->
                IF rdt_cpu_has(b.hw, opts, "X86_FEATURE_CAT_L3")
                THEN rdt_get_cache_alloc_cfg(LateCpuid(b, linear).cat_l3, rec) ELSE rec
           [] r = RDT_RESOURCE_L2 ->
                IF rdt_cpu_has(b.hw, opts, "X86_FEATURE_CAT_L2")
                THEN rdt_get_cache_alloc_cfg(LateCpuid(b, linear).cat_l2, rec) ELSE rec
           [] r = RDT_RESOURCE_MBA -> get_mem_config(b, opts, linear, rec)
           [] OTHER -> get_slow_mem_config(b, opts, linear, rec)

\* get_rdt_mon_resources(): entry r of the table after monitoring discovery;
\* err: rdt_get_mon_l3_config() fails
get_rdt_mon_resources(b, opts, err, r, rec) ==
    LET total == rdt_cpu_has(b.hw, opts, "X86_FEATURE_CQM_MBM_TOTAL")
        local == rdt_cpu_has(b.hw, opts, "X86_FEATURE_CQM_MBM_LOCAL")
        occup == rdt_cpu_has(b.hw, opts, "X86_FEATURE_CQM_OCCUP_LLC")
    IN  IF r # RDT_RESOURCE_L3 \/ ~(total \/ local \/ occup) \/ err THEN rec
        ELSE [rec EXCEPT !.mon_capable = TRUE, !.mbm_total = total, !.mbm_local = local]

\* rdt_init_res_defs() and get_rdt_resources(): the table after discovery
get_rdt_resources(b, opts, linear, err) ==
    [r \in Rids |->
        get_rdt_mon_resources(b, opts, err, r,
            get_rdt_alloc_resources(b, opts, linear, r,
                rdt_init_res_defs(b.vendor, r, UnprobedRes(r))))]

\* Fault variant: the callbacks stay registered when resctrl_init() fails
late_init_after_resctrl_init_keep(ret) ==
    IF ret # "0" THEN "return" ELSE "rdt_online"

\* resctrl_arch_late_init() after resctrl_init(): the statement that follows
late_init_after_resctrl_init(ret) ==
    IF ret # "0" THEN "cpuhp_remove_state" ELSE "rdt_online"

\* rdt_init_res_defs(); get_rdt_resources(); -ENODEV when nothing is capable
GetRdtResources ==
    /\ bootpc = "probe" /\ late.pc = "get_rdt_resources"
    /\ \E err \in BOOLEAN :
           LET tab == get_rdt_resources(boot, rdt_options, late.linear, err)
           IN  /\ res' = tab
               /\ msr' = [r \in Rids |-> [id \in Ids |->
                             [i \in 0 .. (tab[r].num_closid - 1) |-> 0]]]
               /\ late' = IF \E r \in Rids : tab[r].alloc_capable \/ tab[r].mon_capable
                          THEN [late EXCEPT !.pc = "cpuhp_setup_state"]
                          ELSE [late EXCEPT !.pc = "return", !.ret = "-ENODEV"]
    /\ bootpc' = "done"
    /\ UNCHANGED <<ctrl_domains, mon_domains, heap, domain_list_lock, pc, pqr_state,
                   pqr_assoc, hist, ev, nenv>>
    /\ UNCHANGED <<rdt_options, boot, queried>>
    /\ UNCHANGED <<msr_param, wr, rd, plr_d, torn>>

\* A statement of resctrl_arch_late_init() that changes its record only
LateStep(new) ==
    /\ late' = new
    /\ UNCHANGED regvars
    /\ UNCHANGED optvars
    /\ UNCHANGED <<msr_param, wr, rd, plr_d, torn>>

\* cpuhp_setup_state(CPUHP_AP_ONLINE_DYN, ...): no dynamic state is left, or the
\* callbacks are installed and the online callback is run on the online cpus
cpuhp_setup_state ==
    /\ late.pc = "cpuhp_setup_state"
    /\ \E enospc \in BOOLEAN :
           LateStep(IF enospc THEN [late EXCEPT !.pc = "return", !.ret = "-ENOSPC"]
                    ELSE [late EXCEPT !.pc = "startup", !.state = TRUE])

\* The hotplug core runs the online callback on the next online cpu
CpuhpInvokeStartup(c) ==
    /\ late.pc = "startup"
    /\ \A o \in Cpus : o < c => pc[o].up
    /\ CpuhpOnline(c)

\* resctrl_init(), called when cpuhp_setup_state() has returned
resctrl_init ==
    /\ late.pc = "startup"
    /\ \A c \in Cpus : pc[c] = Idle(TRUE)
    /\ \E ret \in {"0", "-ENOMEM"} :
           LateStep([late EXCEPT !.pc = late_init_after_resctrl_init(ret), !.ret = ret])

\* cpuhp_remove_state(): the offline callback is run on the next online cpu
CpuhpInvokeTeardown(c) ==
    /\ late.pc = "cpuhp_remove_state"
    /\ \A o \in Cpus : o < c => ~pc[o].up
    /\ CpuhpOffline(c)

\* cpuhp_remove_state() returns with the callbacks removed; return ret
cpuhp_remove_state ==
    /\ late.pc = "cpuhp_remove_state"
    /\ \A c \in Cpus : pc[c] = Idle(FALSE)
    /\ LateStep([late EXCEPT !.pc = "return", !.state = FALSE])

\* rdt_online = state; return 0
LateReturn ==
    /\ late.pc = "rdt_online"
    /\ LateStep([late EXCEPT !.pc = "return"])

\* The boot cpus: vendor and model, feature bits, delay encoding, rdt= string
LateFeatures ==
    {{"X86_FEATURE_RDT_A", "X86_FEATURE_CAT_L3", "X86_FEATURE_MBA", "X86_FEATURE_SMBA",
      "X86_FEATURE_CQM_MBM_TOTAL"},
     {"X86_FEATURE_RDT_A", "X86_FEATURE_MBA"},
     {"X86_FEATURE_CAT_L3", "X86_FEATURE_MBA"},
     {}}

LateStrings == {<<>>, <<"mba">>, <<"!", "mba">>, <<"!", "l3cat">>}

InitLate ==
    /\ res = [r \in Rids |-> UnprobedRes(r)]
    /\ ctrl_domains = [r \in Rids |-> <<>>]
    /\ mon_domains = [r \in Rids |-> <<>>]
    /\ heap = {}
    /\ msr = [r \in Rids |-> [id \in Ids |-> <<>>]]
    /\ domain_list_lock = NoCpu
    /\ pc = [c \in Cpus |-> Idle(FALSE)]
    /\ pqr_state = [c \in Cpus |-> Reserved]
    /\ pqr_assoc = [c \in Cpus |-> ReservedAssoc]
    /\ hist = [c \in Cpus |-> <<>>]
    /\ ev = NoEvent
    /\ nenv = 0
    /\ msr_param = NoParam
    /\ wr = WrIdle
    /\ rd = RdIdle
    /\ plr_d = {}
    /\ torn = {}
    /\ rdt_options = InitOptions
    /\ \E m \in Machines, hw \in LateFeatures, str \in LateStrings :
           boot = [hw |-> hw, vendor |-> m.vendor, vfm |-> m.vfm,
                   stepping |-> m.stepping, str |-> str]
    /\ bootpc = "setup"
    /\ queried = [flag |-> "none", ret |-> FALSE]
    /\ \E linear \in BOOLEAN :
           late = [pc |-> "get_rdt_resources", state |-> FALSE, ret |-> "none",
                   linear |-> linear]

NextInit ==
    \/ SetupRdt
    \/ CheckQuirks
    \/ GetRdtResources
    \/ cpuhp_setup_state
    \/ \E c \in Cpus : CpuhpInvokeStartup(c)
    \/ resctrl_init
    \/ \E c \in Cpus : CpuhpInvokeTeardown(c)
    \/ cpuhp_remove_state
    \/ LateReturn
    \/ \E c \in Cpus : mutex_lock(c)
    \/ \E c \in Cpus : mutex_unlock(c)
    \/ \E c \in Cpus : OnlineAddCtrl(c)
    \/ \E c \in Cpus : OnlineAddMon(c)
    \/ \E c \in Cpus : OfflineRemoveCtrl(c)
    \/ \E c \in Cpus : OfflineRemoveMon(c)
    \/ \E c \in Cpus : clear_closid_rmid(c)
    \/ \E c \in Cpus : resctrl_online_cpu(c)
    \/ \E c \in Cpus : resctrl_offline_cpu(c)
    \/ \E r \in Rids : \E n \in 1 .. Len(L3Id) : \E closid \in 0 .. 3 :
           late.pc = "return" /\ late.ret = "0" /\ UpdateCtrlVal(r, n, closid)

SpecInit == InitLate /\ [][NextInit]_vars

---------------------------------------------------------------------------
(* Properties of the domain registry under hotplug (Spec) *)

\* The entries of list with this id
DomAt(list, id) == {n \in 1 .. Len(list) : list[n].id = id}

\* Some linked domain of list has this id and holds cpu c
Holds(list, id, c) == \E n \in DomAt(list, id) : c \in list[n].cpu_mask

\* The elements of a sequence
Elems(q) == {q[i] : i \in 1 .. Len(q)}

\* The online handler of cpu c has completed and its offline handler has not started
OnlineDone(c) == pc[c] = Idle(TRUE)

\* The offline handler of cpu c has completed
OfflineDone(c) == pc[c] = Idle(FALSE) /\ hist[c] # <<>>

\* C1: after any sequence of completed handlers (no handler in flight), no
\* linked control or monitor domain of any resource has an empty member set
C1_NoEmptyDomain ==
    InFlight = {} =>
        \A r \in Rids :
            /\ \A n \in 1 .. Len(ctrl_domains[r]) : ctrl_domains[r][n].cpu_mask # {}
            /\ \A n \in 1 .. Len(mon_domains[r]) : mon_domains[r][n].cpu_mask # {}

\* Handlers have completed, one cpu has left its L3 domains for good and the
\* domains are still linked for the cpu that stays
C1_Witness ==
    /\ InFlight = {}
    /\ \E c \in Cpus :
           /\ OfflineDone(c)
           /\ DomAt(ctrl_domains[RDT_RESOURCE_L3], L3Id[c + 1]) # {}
           /\ DomAt(mon_domains[RDT_RESOURCE_L3], L3Id[c + 1]) # {}
    /\ \E c \in Cpus : OfflineDone(c) /\ DomAt(ctrl_domains[RDT_RESOURCE_L3], L3Id[c + 1]) = {}

\* The add call of cpu c's last online handler for resource r succeeded
AddOk(c, e, r) == Step(e, r, "ok") \in Elems(hist[c])

\* C2 (as amended): for every core whose online handler has completed and whose
\* offline handler has not started, and every resource for which that handler's
\* add procedure succeeded (the core joined or created the domain), a domain
\* with the identity the core resolves to is linked and contains the core
C2_DomainWhileOnline ==
    \A c \in Cpus, r \in Rids :
        OnlineDone(c) =>
            /\ (res[r].alloc_capable /\ AddOk(c, "domain_add_cpu_ctrl", r))
                   => Holds(ctrl_domains[r], get_domain_id_from_scope(c, res[r].ctrl_scope), c)
            /\ (res[r].mon_capable /\ AddOk(c, "domain_add_cpu_mon", r))
                   => Holds(mon_domains[r], get_domain_id_from_scope(c, res[r].mon_scope), c)

\* Two cores of one L3 instance are online, then one has gone offline, and the
\* other is still held by the control and the monitor domain
C2_Witness ==
    \E c \in Cpus, c2 \in Cpus :
        /\ c # c2 /\ L3Id[c + 1] = L3Id[c2 + 1]
        /\ OnlineDone(c) /\ OfflineDone(c2)
        /\ AddOk(c, "domain_add_cpu_ctrl", RDT_RESOURCE_L3)
        /\ AddOk(c, "domain_add_cpu_mon", RDT_RESOURCE_L3)
        /\ Holds(ctrl_domains[RDT_RESOURCE_L3], L3Id[c + 1], c)
        /\ Holds(mon_domains[RDT_RESOURCE_L3], L3Id[c + 1], c)

\* C2 as stated: for every capable resource and every core whose online
\* handler has completed (offline not started) and whose identity resolves, a
\* domain with that identity is linked and contains the core
C2_AsStated ==
    \A c \in Cpus, r \in Rids :
        OnlineDone(c) =>
            /\ (res[r].alloc_capable /\ get_domain_id_from_scope(c, res[r].ctrl_scope) >= 0)
                   => Holds(ctrl_domains[r], get_domain_id_from_scope(c, res[r].ctrl_scope), c)
            /\ (res[r].mon_capable /\ get_domain_id_from_scope(c, res[r].mon_scope) >= 0)
                   => Holds(mon_domains[r], get_domain_id_from_scope(c, res[r].mon_scope), c)

\* The list, scope and offline-domain hook a call of the resource loop works on
ListOf(call, cd, md) == IF call.k = "ctrl" THEN cd[call.rid] ELSE md[call.rid]

ScopeOf(call) ==
    IF call.k = "ctrl" THEN res[call.rid].ctrl_scope ELSE res[call.rid].mon_scope

OfflineHookOf(call) ==
    IF call.k = "ctrl" THEN "resctrl_offline_ctrl_domain" ELSE "resctrl_offline_mon_domain"

\* The lists the call does not work on stay as they are
OthersUnchanged(call) ==
    /\ \A r \in Rids : r # call.rid =>
           ctrl_domains'[r] = ctrl_domains[r] /\ mon_domains'[r] = mon_domains[r]
    /\ IF call.k = "ctrl" THEN mon_domains' = mon_domains ELSE ctrl_domains' = ctrl_domains

\* The list without its entry n
Without(list, n) == SubSeq(list, 1, n - 1) \o SubSeq(list, n + 1, Len(list))

\* The remove step of cpu c, a member of the domain of its identity
C3_RemoveStep(c) ==
    LET call == Calls[pc[c].i]
        old  == ListOf(call, ctrl_domains, mon_domains)
        new  == ListOf(call, ctrl_domains', mon_domains')
        id   == get_domain_id_from_scope(c, ScopeOf(call))
    IN  \A n \in DomAt(old, id) :
            c \in old[n].cpu_mask =>
                /\ OthersUnchanged(call)
                /\ IF old[n].cpu_mask # {c}
                   THEN /\ new = [old EXCEPT ![n].cpu_mask = @ \ {c}]
                        /\ heap' = heap
                        /\ OfflineHookOf(call) \notin Elems(ev'.steps)
                   ELSE /\ new = Without(old, n)
                        /\ heap' = heap \ {old[n].addr}
                        /\ OfflineHookOf(call) \in Elems(ev'.steps)

\* A domain linked before a step and not after it was emptied by that step
C3_UnlinkedOnlyWhenEmptied ==
    \A r \in Rids, k \in {"ctrl", "mon"} :
        LET call == [k |-> k, rid |-> r]
            old  == ListOf(call, ctrl_domains, mon_domains)
            new  == ListOf(call, ctrl_domains', mon_domains')
        IN  \A n \in 1 .. Len(old) :
                (DomAt(new, old[n].id) = {} \/ old[n].addr \notin heap') =>
                    \E c \in Cpus :
                        /\ Stmt(c) = "domain_remove_cpu" /\ pc[c].h = "offline"
                        /\ Calls[pc[c].i] = call
                        /\ old[n].cpu_mask = {c}

\* C3: a core leaving a domain that has other members leaves the domain linked
\* with the same identity and quota array, only that core is removed from the
\* member set and no offline-domain hook is called; a domain is unlinked and
\* reclaimed in exactly the remove step that empties its member set
C3_LeaveKeepsDomain ==
    [][ /\ \A c \in Cpus :
              (Stmt(c) = "domain_remove_cpu" /\ pc[c].h = "offline") => C3_RemoveStep(c)
        /\ C3_UnlinkedOnlyWhenEmptied ]_vars

\* The first of two cores of one L3 instance has just left the control domain,
\* whose quota array the upper layer had changed; the domain holds the other
C3_Witness ==
    /\ ev.op = "domain_remove_cpu_ctrl" /\ ev.out = "left"
    /\ \E n \in DomAt(ctrl_domains[ev.rid], ev.id) :
           /\ ctrl_domains[ev.rid][n].cpu_mask # {}
           /\ ev.cpu \notin ctrl_domains[ev.rid][n].cpu_mask
           /\ \E i \in DOMAIN ctrl_domains[ev.rid][n].ctrl_val :
                  ctrl_domains[ev.rid][n].ctrl_val[i] = AltCtrl(res[ev.rid])

\* C4: when a core is the first to join a control-domain identity of a resource
\* with N allocation classes, the new domain's quota array has exactly N
\* entries, each the resource's default (all bits of the bitmask length set for
\* a cache: 0xFFFFF = 1048575 for length 20; the maximum for bandwidth), and
\* one register write is issued for every index of [0, N) and for no other
C4_CreateDefaults ==
    (ev.op = "domain_add_cpu_ctrl" /\ ev.out = "created") =>
        LET rec  == res[ev.rid]
            N    == rec.num_closid
            dflt == IF rec.schema_fmt = "RESCTRL_SCHEMA_BITMAP" THEN 2 ^ rec.cbm_len - 1
                    ELSE rec.max_bw
        IN  /\ \E n \in DomAt(ctrl_domains[ev.rid], ev.id) :
                   /\ ctrl_domains[ev.rid][n].cpu_mask = {ev.cpu}
                   /\ DOMAIN ctrl_domains[ev.rid][n].ctrl_val = 0 .. (N - 1)
                   /\ \A i \in 0 .. (N - 1) : ctrl_domains[ev.rid][n].ctrl_val[i] = dflt
            /\ Len(ev.wrote) = N
            /\ {ev.wrote[k].i : k \in 1 .. N} = 0 .. (N - 1)
            /\ (rec.schema_fmt = "RESCTRL_SCHEMA_BITMAP" /\ rec.cbm_len = 20) => dflt = 1048575

\* A core has just created the L3 control domain of a resource with 4 classes
\* and bitmask length 20
C4_Witness ==
    /\ ev.op = "domain_add_cpu_ctrl" /\ ev.out = "created" /\ ev.rid = RDT_RESOURCE_L3
    /\ res[ev.rid].num_closid = 4 /\ res[ev.rid].cbm_len = 20
    /\ \E n \in DomAt(ctrl_domains[ev.rid], ev.id) :
           ctrl_domains[ev.rid][n].ctrl_val = [i \in 0 .. 3 |-> 1048575]
    /\ Len(ev.wrote) = 4

\* The positions of hist[c] at which statement e ran
At(c, e) == {i \in DOMAIN hist[c] : hist[c][i].e = e}

\* The positions of hist[c] at which a registry procedure ran
AtCalls(c) ==
    {i \in DOMAIN hist[c] : hist[c][i].e \in {"domain_add_cpu_ctrl", "domain_add_cpu_mon",
                                              "domain_remove_cpu_ctrl", "domain_remove_cpu_mon"}}

\* Every position of P precedes every position of Q
Before(P, Q) == \A i \in P, j \in Q : i < j

\* The cpu's tracking state and association register hold the reserved values
TrackingReset(c) ==
    /\ pqr_state[c].cur_closid = RESCTRL_RESERVED_CLOSID
    /\ pqr_state[c].cur_rmid = RESCTRL_RESERVED_RMID
    /\ pqr_state[c].default_closid = RESCTRL_RESERVED_CLOSID
    /\ pqr_state[c].default_rmid = RESCTRL_RESERVED_RMID
    /\ pqr_assoc[c].closid = RESCTRL_RESERVED_CLOSID
    /\ pqr_assoc[c].rmid = RESCTRL_RESERVED_RMID

\* C8: in the online handler the per-core online hook is invoked last: when it
\* is invoked the add procedure has run for every capable resource, the writer
\* lock has been released after them, and the core's tracking state has then
\* been reset to the reserved values and written to its association register;
\* the handler returns right after the hook
C8_OnlineHookLast ==
    \A c \in Cpus :
        /\ (pc[c].h = "online" /\ Stmt(c) = "resctrl_online_cpu") =>
               /\ \A r \in Rids :
                      /\ res[r].alloc_capable =>
                             \E i \in At(c, "domain_add_cpu_ctrl") : hist[c][i].rid = r
                      /\ res[r].mon_capable =>
                             \E i \in At(c, "domain_add_cpu_mon") : hist[c][i].rid = r
               /\ At(c, "mutex_unlock") # {} /\ domain_list_lock # c
               /\ At(c, "clear_closid_rmid") # {} /\ TrackingReset(c)
               /\ Before(AtCalls(c), At(c, "mutex_unlock"))
               /\ Before(At(c, "mutex_unlock"), At(c, "clear_closid_rmid"))
        /\ (pc[c].h = "online" \/ OnlineDone(c)) =>
               \A i \in At(c, "resctrl_online_cpu") : i = Len(hist[c]) /\ OnlineDone(c)

\* An online handler has completed: its last step was the hook, and the core
\* is held by the domains it joined
C8_Witness ==
    \E c \in Cpus :
        /\ OnlineDone(c)
        /\ hist[c] # <<>> /\ hist[c][Len(hist[c])].e = "resctrl_online_cpu"
        /\ Holds(ctrl_domains[RDT_RESOURCE_L3], L3Id[c + 1], c)
        /\ Holds(mon_domains[RDT_RESOURCE_L3], L3Id[c + 1], c)
        /\ TrackingReset(c)

\* C9: in the offline handler the per-core offline hook is invoked first,
\* before any member set or domain list is changed; every removal runs with
\* the writer lock held; the reset of the core's tracking state to the
\* reserved values happens after the lock is released, as on the online path
C9_OfflineHookFirst ==
    \A c \in Cpus :
        (pc[c].h = "offline" \/ OfflineDone(c)) =>
            /\ hist[c] # <<>> => hist[c][1].e = "resctrl_offline_cpu"
            /\ Before(At(c, "resctrl_offline_cpu"), AtCalls(c))
            /\ Before(At(c, "mutex_lock"), AtCalls(c))
            /\ Before(AtCalls(c), At(c, "mutex_unlock"))
            /\ AtCalls(c) # {} => At(c, "mutex_lock") # {}
            /\ Stmt(c) = "domain_remove_cpu" => domain_list_lock = c
            /\ Stmt(c) = "clear_closid_rmid" =>
                   domain_list_lock # c /\ At(c, "mutex_unlock") # {}
            /\ Before(At(c, "mutex_unlock"), At(c, "clear_closid_rmid"))
            /\ OfflineDone(c) =>
                   /\ hist[c][Len(hist[c])].e = "clear_closid_rmid"
                   /\ TrackingReset(c)
                   /\ \A r \in Rids :
                          /\ res[r].alloc_capable =>
                                 \E i \in At(c, "domain_remove_cpu_ctrl") : hist[c][i].rid = r
                          /\ res[r].mon_capable =>
                                 \E i \in At(c, "domain_remove_cpu_mon") : hist[c][i].rid = r

\* An offline handler has completed and the core is in no domain any more
C9_Witness ==
    \E c \in Cpus :
        /\ OfflineDone(c)
        /\ At(c, "resctrl_offline_cpu") = {1}
        /\ At(c, "domain_remove_cpu_ctrl") # {}
        /\ \A r \in Rids :
               /\ \A n \in 1 .. Len(ctrl_domains[r]) : c \notin ctrl_domains[r][n].cpu_mask
               /\ \A n \in 1 .. Len(mon_domains[r]) : c \notin mon_domains[r][n].cpu_mask
        /\ \E c2 \in Cpus : OnlineDone(c2)

\* What a failed creation leaves: the lists and the heap as before the call
RolledBack ==
    /\ ctrl_domains' = ctrl_domains
    /\ mon_domains' = mon_domains
    /\ heap' = heap

\* The add step of cpu c: the core ends in a linked domain of its identity, or
\* nothing has changed; a failed hook or array allocation is the second case
C10_AddStep(c) ==
    LET call == Calls[pc[c].i]
        new  == ListOf(call, ctrl_domains', mon_domains')
        id   == get_domain_id_from_scope(c, ScopeOf(call))
    IN  /\ Holds(new, id, c) \/ RolledBack
        /\ ev'.out \in {"hook_err", "enomem_ctrlval", "enomem_mbm"} => RolledBack

\* C10: if the online-domain hook fails for a newly created control or monitor
\* domain, or allocating its quota or counter arrays fails, the creation is
\* rolled back: after the add procedure the resource's domain list is exactly
\* as before the call and the new object is reclaimed
C10_CreationRolledBack ==
    [][ \A c \in Cpus :
            (Stmt(c) = "domain_add_cpu" /\ pc[c].h = "online") => C10_AddStep(c) ]_vars

\* The online-domain hook has just failed for a new control domain whose
\* defaults were already programmed, while another domain stays linked
C10_Witness ==
    /\ ev.out = "hook_err" /\ ev.op = "domain_add_cpu_ctrl" /\ ev.wrote # <<>>
    /\ DomAt(ctrl_domains[ev.rid], ev.id) = {}
    /\ ctrl_domains[ev.rid] # <<>>
    /\ heap = UNION {{ctrl_domains[r][n].addr : n \in 1 .. Len(ctrl_domains[r])}
                     \cup {mon_domains[r][n].addr : n \in 1 .. Len(mon_domains[r])} : r \in Rids}

---------------------------------------------------------------------------
(* Properties of the registry procedures called directly (SpecReg) *)

OnlineHookOf(call) ==
    IF call.k = "ctrl" THEN "resctrl_online_ctrl_domain" ELSE "resctrl_online_mon_domain"

\* The add step just taken, of kind k, found a linked domain of the identity
C5_AddToLinked(k) ==
    LET call == [k |-> k, rid |-> ev'.rid]
        c    == ev'.cpu
        old  == ListOf(call, ctrl_domains, mon_domains)
        new  == ListOf(call, ctrl_domains', mon_domains')
        id   == get_domain_id_from_scope(c, ScopeOf(call))
    IN  \A n \in DomAt(old, id) :
            /\ new = [old EXCEPT ![n].cpu_mask = @ \cup {c}]
            /\ OthersUnchanged(call)
            /\ heap' = heap
            /\ msr' = msr /\ ev'.wrote = <<>>
            /\ OnlineHookOf(call) \notin Elems(ev'.steps)
            /\ c \in old[n].cpu_mask => new = old

\* C5: adding a core to an identity that already has a linked domain, whether
\* or not the core is already a member, leaves the domain's identity and quota
\* array unchanged, creates no domain, writes no quota register and calls no
\* online-domain hook; only the member set can change, and it does not change
\* if the core was already a member
C5_AddToExisting ==
    [][ /\ ev'.op = "domain_add_cpu_ctrl" => C5_AddToLinked("ctrl")
        /\ ev'.op = "domain_add_cpu_mon" => C5_AddToLinked("mon") ]_vars

\* A core has just been added again to the control domain it is the only member
\* of, and the domain's quota array is not the default one
C5_Witness ==
    /\ ev.op = "domain_add_cpu_ctrl" /\ ev.out = "joined"
    /\ \E n \in DomAt(ctrl_domains[ev.rid], ev.id) :
           /\ ctrl_domains[ev.rid][n].cpu_mask = {ev.cpu}
           /\ \E i \in DOMAIN ctrl_domains[ev.rid][n].ctrl_val :
                  ctrl_domains[ev.rid][n].ctrl_val[i] = AltCtrl(res[ev.rid])

---------------------------------------------------------------------------
(* Properties of the option override (SpecOpt) *)

\* The option name of a feature flag
NameOf(flag) == OptNames[option_of_flag(flag, 1)]

\* Chunk i of the boot string starts a comma-separated token, and chunk j ends one
TokenStart(str, i) ==
    \/ i = 1
    \/ i = 2 /\ str[1] = "="
    \/ i > 1 /\ str[i - 1] = ","

TokenEnd(str, j) == j = Len(str) \/ str[j + 1] = ","

\* The boot line names the feature with a leading '!', or bare
NamedOff(str, name) ==
    \E i \in 1 .. (Len(str) - 1) :
        TokenStart(str, i) /\ str[i] = "!" /\ str[i + 1] = name /\ TokenEnd(str, i + 1)

NamedOn(str, name) ==
    \E i \in 1 .. Len(str) : TokenStart(str, i) /\ str[i] = name /\ TokenEnd(str, i)

\* A vendor quirk forces the feature off on this machine
QuirkOff(b, flag) ==
    /\ b.vendor = "X86_VENDOR_INTEL" /\ b.vfm = "INTEL_SKYLAKE_X"
    /\ \/ flag = "X86_FEATURE_CAT_L3"
       \/ b.stepping <= 4 /\ flag \in {"X86_FEATURE_CQM_OCCUP_LLC", "X86_FEATURE_CQM_MBM_TOTAL",
                                        "X86_FEATURE_CQM_MBM_LOCAL"}

ForcedOff(flag) == NamedOff(boot.str, NameOf(flag)) \/ QuirkOff(boot, flag)

ForcedOn(flag) == NamedOn(boot.str, NameOf(flag))

\* rdt_cpu_has() has been asked about a feature after parsing and quirks
Queried == bootpc = "probe" /\ queried.flag # "none"

\* C6 (as amended): a feature forced off, by a leading '!' on the boot line or
\* by a vendor quirk, and not also forced on by its bare name, is reported
\* absent whatever the hardware reports and whatever else the boot line holds;
\* if it is also forced on, force-on wins and it is reported as the hardware
\* reports it. For "!l3cat,mba": l3cat is absent, mba is as the hardware reports
C6_ForcedOff ==
    Queried =>
        /\ (ForcedOff(queried.flag) /\ ~ForcedOn(queried.flag)) => queried.ret = FALSE
        /\ (ForcedOff(queried.flag) /\ ForcedOn(queried.flag))
               => queried.ret = (queried.flag \in boot.hw)
        /\ boot.str = <<"!", "l3cat", ",", "mba">> =>
               /\ queried.flag = "X86_FEATURE_CAT_L3" => queried.ret = FALSE
               /\ queried.flag = "X86_FEATURE_MBA"
                      => queried.ret = ("X86_FEATURE_MBA" \in boot.hw)

\* With "!l3cat,mba" on hardware that has both, l3cat has been reported absent
C6_Witness ==
    /\ Queried
    /\ boot.str = <<"!", "l3cat", ",", "mba">>
    /\ boot.hw = {"X86_FEATURE_CAT_L3", "X86_FEATURE_MBA"}
    /\ queried = [flag |-> "X86_FEATURE_CAT_L3", ret |-> FALSE]

\* C6 as stated: a feature forced off is reported absent regardless of any
\* other token on the boot line
C6_AsStated ==
    (Queried /\ ForcedOff(queried.flag)) => queried.ret = FALSE

C11_NoUseAfterFree ==
    rd.in => /\ rd.seen # "freed"
             /\ rd.cur.addr # 0 => rd.cur.addr \in heap

\* A teardown waits in synchronize_rcu() for a reader whose cursor is on the
\* domain that was just unlinked
C11_Witness ==
    /\ wr.op = "remove_ctrl" /\ WrStmt = "synchronize_rcu" /\ wr.wait = {"rd"}
    /\ rd.in /\ rd.cur.addr = wr.d.addr
    /\ AtAddr(ctrl_domains[wr.rid], wr.d.addr) = {}

\* The same on the rollback path of a failed online hook
C11_RollbackWaits ==
    /\ wr.op \in {"add_ctrl", "add_mon"} /\ WrStmt = "synchronize_rcu" /\ wr.wait = {"rd"}
    /\ rd.in /\ rd.cur.addr = wr.d.addr

\* The teardown steps in the order the claim gives them, after the member is cleared
C15_Order ==
    <<"cpumask_clear_cpu", "resctrl_offline_ctrl_domain", "list_del_rcu",
      "synchronize_rcu", "plr_clear", "ctrl_domain_free">>

\* C15: the teardown of an emptied control domain runs, each exactly once and
\* in this order: the offline-domain hook (domain still linked), the unlink,
\* the grace-period wait (domain unlinked, still allocated), the clearing of
\* the pseudo-lock back-reference, and only then the reclaim of the memory.
C15_TeardownOrder ==
    [][(wr.op = "remove_ctrl" /\ wr'.log # wr.log) =>
        LET a      == wr.d.addr
            linked == AtAddr(ctrl_domains[wr.rid], a) # {}
            after  == AtAddr(ctrl_domains'[wr.rid], a) # {}
        IN  /\ wr.log = SubSeq(C15_Order, 1, wr.ip - 1)
            /\ WrStmt = C15_Order[wr.ip]
            /\ a \in heap
            /\ WrStmt = "resctrl_offline_ctrl_domain" => linked /\ after /\ wr.d.cpu_mask = {}
            /\ WrStmt = "list_del_rcu" => linked /\ ~after /\ a \in heap'
            /\ WrStmt = "synchronize_rcu" => ~linked /\ wr.wait = {} /\ a \in heap'
                                             /\ (wr.d.plr => a \in plr_d')
            /\ WrStmt = "plr_clear" => ~linked /\ a \notin plr_d' /\ a \in heap'
            /\ WrStmt = "ctrl_domain_free" =>
                   /\ ~linked /\ a \notin plr_d /\ a \notin heap'
                   /\ wr'.op = "none" /\ wr'.log = C15_Order
       ]_vars

\* The teardown of a domain with a pinned region has cleared the
\* back-reference and is about to reclaim the memory
C15_Witness ==
    /\ wr.op = "remove_ctrl" /\ WrStmt = "ctrl_domain_free"
    /\ wr.d.plr /\ wr.d.addr \notin plr_d /\ wr.d.addr \in heap
    /\ wr.log = SubSeq(C15_Order, 1, 5)

\* The positions of list2 whose domain is not in list
C16_NewlyLinked(list, list2) ==
    {n \in 1 .. Len(list2) : \A k \in 1 .. Len(list) : list[k].addr # list2[n].addr}

\* A control domain with its identity, a first member, the quota array filled
\* with the default, and the defaults in the registers regs
C16_CtrlInitialised(r, d, regs) ==
    LET N    == res[r].num_closid
        dflt == 2 ^ res[r].cbm_len - 1
    IN  /\ d.cpu_mask # {}
        /\ \A c \in d.cpu_mask : L3Id[c + 1] = d.id
        /\ DOMAIN d.ctrl_val = 0 .. (N - 1)
        /\ \A i \in 0 .. (N - 1) : d.ctrl_val[i] = dflt /\ regs[r][d.id][i] = dflt

\* A monitor domain with its identity, its cache-instance id, a first member
\* and the counter arrays of every enabled counter kind
C16_MonInitialised(r, d) ==
    /\ d.cpu_mask # {}
    /\ \A c \in d.cpu_mask : L3Id[c + 1] = d.id /\ L3Id[c + 1] = d.ci_id
    /\ res[r].mbm_total => d.arch_mbm_total
    /\ res[r].mbm_local => d.arch_mbm_local

\* C16: a domain becomes reachable from its list only fully initialised (a
\* control domain with identity, first member, quota array filled with the
\* default and the defaults programmed; a monitor domain with identity,
\* cache-instance id, first member and the counter arrays of every enabled
\* kind), and a reader's cursor is never on a domain that is not linked yet.
C16_PublishedInitialised ==
    [][/\ \A n \in C16_NewlyLinked(ctrl_domains[RcuRid], ctrl_domains'[RcuRid]) :
              C16_CtrlInitialised(RcuRid, ctrl_domains'[RcuRid][n], msr')
       /\ \A n \in C16_NewlyLinked(mon_domains[RcuRid], mon_domains'[RcuRid]) :
              C16_MonInitialised(RcuRid, mon_domains'[RcuRid][n])
       /\ (rd.in /\ rd.cur.addr # 0 /\ wr.op \in {"add_ctrl", "add_mon"}
           /\ wr.d.addr = rd.cur.addr) => "list_add_tail_rcu" \in Elems(wr.log)
      ]_vars

\* A reader's cursor is on a control domain that was linked a moment ago and
\* whose online hook has not run yet
C16_Witness ==
    /\ wr.op = "add_ctrl" /\ WrStmt = "resctrl_online_ctrl_domain"
    /\ rd.in /\ rd.kind = "ctrl" /\ rd.cur.addr = wr.d.addr
    /\ C16_CtrlInitialised(RcuRid, wr.d, msr)

\* C12: with the linear-delay strategy the register value for percentage p is
\* MAX - p with MAX = 100, for every p from the minimum bandwidth to 100
\* (100% gives 0, 10% gives 90), both as computed by delay_bw_map() and as it
\* arrives in the register of every class of the programmed range.
C12_LinearDelay ==
    [][/\ \A r \in Rids :
              (res[r].msr_update = "mba_wrmsr_intel" /\ res[r].delay_linear) =>
                  /\ \A p \in res[r].min_bw .. 100 : delay_bw_map(p, res[r]) = 100 - p
                  /\ delay_bw_map(100, res[r]) = 0
                  /\ delay_bw_map(10, res[r]) = 90
       /\ (msr_param # NoParam /\ msr_param' = NoParam
           /\ res[msr_param.rid].msr_update = "mba_wrmsr_intel"
           /\ res[msr_param.rid].delay_linear) =>
              LET d == ctrl_domains[msr_param.rid][msr_param.n]
              IN  \A i \in msr_param.low .. (msr_param.high - 1) :
                      msr'[msr_param.rid][d.id][i] = 100 - d.ctrl_val[i]
      ]_vars

\* Classes 0 and 1 of a linear-delay bandwidth domain were set to 10% and 100%
\* and programmed: the registers hold 90 and 0
C12_Witness ==
    /\ res[RDT_RESOURCE_MBA].msr_update = "mba_wrmsr_intel"
    /\ res[RDT_RESOURCE_MBA].delay_linear
    /\ res[RDT_RESOURCE_MBA].min_bw = 10
    /\ msr_param = NoParam
    /\ Len(ctrl_domains[RDT_RESOURCE_MBA]) = 1
    /\ ctrl_domains[RDT_RESOURCE_MBA][1].ctrl_val = (0 :> 10 @@ 1 :> 100)
    /\ msr[RDT_RESOURCE_MBA][ctrl_domains[RDT_RESOURCE_MBA][1].id] = (0 :> 90 @@ 1 :> 0)

\* What a faithful emulation of the hardware reports as the quota held by a
\* register: the bitmask or bandwidth value itself, or MAX minus the delay
C13_ReadBack(rec, v) == IF rec.msr_update = "mba_wrmsr_intel" THEN 100 - v ELSE v

\* C13: programming the classes [low, high) of a domain and reading the
\* registers back returns exactly the quota array's values for the cache and
\* the AMD bandwidth strategies and a percentage within one granularity step
\* for the linear-delay strategy; every register outside [low, high), of this
\* and of every other domain, is unchanged.
C13_WriteReadBack ==
    [][(msr_param # NoParam /\ msr_param' = NoParam) =>
        LET m   == msr_param
            rec == res[m.rid]
            d   == ctrl_domains[m.rid][m.n]
        IN  /\ \A i \in m.low .. (m.high - 1) :
                   LET back == C13_ReadBack(rec, msr'[m.rid][d.id][i])
                   IN  IF rec.msr_update = "mba_wrmsr_intel"
                       THEN back - d.ctrl_val[i] < rec.bw_gran
                            /\ d.ctrl_val[i] - back < rec.bw_gran
                       ELSE back = d.ctrl_val[i]
            /\ \A i \in (0 .. (rec.num_closid - 1)) \ (m.low .. (m.high - 1)) :
                   msr'[m.rid][d.id][i] = msr[m.rid][d.id][i]
            /\ \A r \in Rids, id \in Ids : (r # m.rid \/ id # d.id) => msr'[r][id] = msr[r][id]
            /\ ctrl_domains' = ctrl_domains
       ]_vars

\* Classes 1 and 2 of a cache domain with four classes were set to 1 and 3 and
\* programmed: registers 1 and 2 hold them, registers 0 and 3 still the default
C13_Witness ==
    /\ msr_param = NoParam
    /\ res[RDT_RESOURCE_L3].num_closid = 4
    /\ Len(ctrl_domains[RDT_RESOURCE_L3]) = 1
    /\ LET d == ctrl_domains[RDT_RESOURCE_L3][1]
       IN  /\ d.ctrl_val = (0 :> 1048575 @@ 1 :> 1 @@ 2 :> 3 @@ 3 :> 1048575)
           /\ msr[RDT_RESOURCE_L3][d.id] = d.ctrl_val

\* The positions of hist[c] at which procedure e ran for resource r
C14_AtRes(c, e, r) == {i \in At(c, e) : hist[c][i].rid = r}

\* C14 (as amended): within one handler invocation the procedures run resource
\* by resource (the calls for one resource are not interleaved with those for
\* another), and for each resource the control-domain procedure runs before
\* the monitor-domain procedure, in the online handler (adds) and in the
\* offline handler (removes) alike.
C14_PerResourceOrder ==
    \A c \in Cpus :
        LET h == hist[c]
            IsCall(s) == s.e \in {"domain_add_cpu_ctrl", "domain_add_cpu_mon",
                                  "domain_remove_cpu_ctrl", "domain_remove_cpu_mon"}
        IN  \A i \in DOMAIN h, k \in DOMAIN h :
                (i < k /\ IsCall(h[i]) /\ IsCall(h[k]) /\ h[i].rid = h[k].rid) =>
                    /\ h[i].e \in {"domain_add_cpu_ctrl", "domain_remove_cpu_ctrl"}
                    /\ h[k].e \in {"domain_add_cpu_mon", "domain_remove_cpu_mon"}
                    /\ k = i + 1

\* C14 as stated: all control-domain adds precede all monitor-domain adds in
\* an online handler, all control-domain removes precede all monitor-domain
\* removes in an offline handler
C14_AsStated ==
    \A c \in Cpus :
        /\ Before(At(c, "domain_add_cpu_ctrl"), At(c, "domain_add_cpu_mon"))
        /\ Before(At(c, "domain_remove_cpu_ctrl"), At(c, "domain_remove_cpu_mon"))

\* An online handler has completed on a machine with a monitor-capable L3 and
\* an allocation-capable L2: control and monitor of L3 ran, then control of L2
C14_Witness ==
    \E c \in Cpus :
        /\ OnlineDone(c)
        /\ \E i \in C14_AtRes(c, "domain_add_cpu_ctrl", RDT_RESOURCE_L3),
              j \in C14_AtRes(c, "domain_add_cpu_mon", RDT_RESOURCE_L3),
              k \in C14_AtRes(c, "domain_add_cpu_ctrl", RDT_RESOURCE_L2) : i < j /\ j < k

\* Identity, members and address of the domains of a list, in list order
C17_Shape(list) ==
    [n \in 1 .. Len(list) |-> [id |-> list[n].id, cpu_mask |-> list[n].cpu_mask,
                                addr |-> list[n].addr]]

\* The cpus whose handler is inside its resource loop
C17_InLoop == {c \in Cpus : Stmt(c) \in {"domain_add_cpu", "domain_remove_cpu"}}

\* C17: every insertion, unlink and member-set change is made by a handler
\* that holds the writer lock; while one handler is inside its add or remove
\* loop no other handler is, so their procedures never interleave; and the
\* lock is not held by a handler that has returned.
C17_WriterLock ==
    [][/\ \A c \in C17_InLoop : domain_list_lock = c
       /\ Cardinality(C17_InLoop) <= 1
       /\ \A c \in Cpus : pc[c].h = "none" => domain_list_lock # c
       /\ (\E r \in Rids : \/ C17_Shape(ctrl_domains'[r]) # C17_Shape(ctrl_domains[r])
                           \/ C17_Shape(mon_domains'[r]) # C17_Shape(mon_domains[r])) =>
              \E c \in Cpus : /\ domain_list_lock = c /\ domain_list_lock' = c
                              /\ pc'[c] # pc[c]
                              /\ \A o \in Cpus \ {c} : pc'[o] = pc[o]
       /\ \A c \in Cpus : (pc[c].h # "none" /\ pc'[c].h = "none") => domain_list_lock' # c
      ]_vars

\* One handler is in the middle of its resource loop holding the lock while
\* another handler waits at mutex_lock()
C17_Witness ==
    \E c \in Cpus, o \in Cpus :
        /\ c # o
        /\ Stmt(c) = "domain_add_cpu" /\ pc[c].i > 1 /\ domain_list_lock = c
        /\ Stmt(o) = "mutex_lock"

\* The list holds at most one domain per identity, in ascending identity order
C18_Sorted(list) == \A i \in 1 .. Len(list), j \in 1 .. Len(list) : i < j => list[i].id < list[j].id

\* C18: in every reachable state each resource's control-domain list and
\* monitor-domain list holds at most one domain per identity and is sorted by
\* identity in ascending order.
C18_SortedUnique ==
    \A r \in Rids : C18_Sorted(ctrl_domains[r]) /\ C18_Sorted(mon_domains[r])

\* A cpu of cache instance 0 has just created its L3 control domain although
\* the domain of instance 1 was linked first: the new one went in front of it
C18_Witness ==
    /\ ev.op = "domain_add_cpu_ctrl" /\ ev.out = "created"
    /\ ev.rid = RDT_RESOURCE_L3 /\ ev.id = 0
    /\ Len(ctrl_domains[RDT_RESOURCE_L3]) = 2
    /\ ctrl_domains[RDT_RESOURCE_L3][1].id = 0
    /\ ctrl_domains[RDT_RESOURCE_L3][2].id = 1

\* C19: removing a core whose (resolved) identity has no linked domain in the
\* list is a no-op: the lists, the member sets, the quota arrays, the
\* registers and the set of live objects are unchanged, no hook is invoked,
\* and the offline handler goes on to its next call or statement.
C19_RemoveWithoutDomain ==
    [][\A c \in Cpus :
        (pc[c].h = "offline" /\ Stmt(c) = "domain_remove_cpu" /\ pc'[c] # pc[c]) =>
            LET call == Calls[pc[c].i]
                old  == ListOf(call, ctrl_domains, mon_domains)
                id   == get_domain_id_from_scope(c, ScopeOf(call))
            IN  (id >= 0 /\ DomAt(old, id) = {}) =>
                    /\ ctrl_domains' = ctrl_domains /\ mon_domains' = mon_domains
                    /\ heap' = heap /\ msr' = msr
                    /\ ev'.steps = <<>>
                    /\ ev'.cpu = c /\ ev'.rid = call.rid
                    /\ pc'[c] = NextCall(pc[c])
                    /\ pc'[c].h = "offline" \/ pc'[c] = Idle(FALSE)
                    /\ domain_list_lock' = domain_list_lock
      ]_vars

\* A remove procedure has just run for a cpu whose control-domain creation had
\* failed when it came online: there was no domain of its identity
C19_Witness ==
    /\ ev.op = "domain_remove_cpu_ctrl" /\ ev.out = "no_domain"
    /\ ev.id >= 0
    /\ DomAt(ctrl_domains[ev.rid], ev.id) = {}
    /\ pc[ev.cpu].h = "offline"

\* The identity of cpu c in the scope of a call, from the topology tables
\* (negative: it cannot be resolved)
C20_Identity(c, call) ==
    IF ScopeOf(call) = "RESCTRL_L3_CACHE" THEN L3Id[c + 1]
    ELSE IF ScopeOf(call) = "RESCTRL_L2_CACHE" THEN L2Id[c + 1]
    ELSE 0

\* C20: when a core's identity for a resource cannot be resolved, the add and
\* the remove procedure skip that resource (lists, member sets, registers and
\* live objects unchanged, nothing allocated, no hook), the handler goes on
\* with the remaining resources, runs every call of its loop and completes
\* (an online handler leaves the cpu online).
C20_UnresolvedIdentity ==
    [][\A c \in Cpus :
        /\ (Stmt(c) \in {"domain_add_cpu", "domain_remove_cpu"} /\ pc'[c] # pc[c]
            /\ C20_Identity(c, Calls[pc[c].i]) < 0) =>
               /\ ctrl_domains' = ctrl_domains /\ mon_domains' = mon_domains
               /\ heap' = heap /\ msr' = msr /\ nenv' = nenv
               /\ ev'.steps = <<>> /\ ev'.wrote = <<>>
               /\ ev'.cpu = c /\ ev'.rid = Calls[pc[c].i].rid
               /\ pc'[c] = NextCall(pc[c])
        /\ Stmt(c) = "mutex_unlock" => Cardinality(AtCalls(c)) = Len(Calls)
        /\ (pc[c].h = "online" /\ pc'[c].h = "none") => pc'[c] = Idle(TRUE)
        /\ (pc[c].h = "offline" /\ pc'[c].h = "none") => pc'[c] = Idle(FALSE)
      ]_vars

\* The online handler of a cpu without an L2 identity has completed: the L2
\* control add was skipped and the bandwidth resource after it was served
C20_Witness ==
    \E c \in Cpus :
        /\ L2Id[c + 1] < 0
        /\ OnlineDone(c)
        /\ DomAt(ctrl_domains[RDT_RESOURCE_L2], L2Id[c + 1]) = {}
        /\ \E i \in DOMAIN hist[c], j \in DOMAIN hist[c] :
               /\ i < j
               /\ hist[c][i] = Step("domain_add_cpu_ctrl", RDT_RESOURCE_L2, "err")
               /\ hist[c][j] = Step("domain_add_cpu_ctrl", RDT_RESOURCE_MBA, "ok")

\* C21: when the online or the offline handler of a core completes, the core's
\* current and default allocation class and monitoring group equal the
\* reserved values and its association register holds them; and no step of a
\* handler changes the tracking state or association register of another core.
C21_ResetFrame ==
    [][\A c \in Cpus :
        /\ (pc[c].h # "none" /\ pc'[c].h = "none") =>
               /\ pqr_state'[c] = [cur_closid |-> 0, cur_rmid |-> 0,
                                   default_closid |-> 0, default_rmid |-> 0]
               /\ pqr_assoc'[c] = [rmid |-> 0, closid |-> 0]
        /\ (pc[c].h # "none" /\ pc'[c] # pc[c]) =>
               \A o \in Cpus \ {c} : pqr_state'[o] = pqr_state[o] /\ pqr_assoc'[o] = pqr_assoc[o]
      ]_vars

\* A handler has completed and left the reserved values on its cpu while
\* another online cpu still runs with a non-default group
C21_Witness ==
    \E c \in Cpus, o \in Cpus :
        /\ c # o
        /\ pc[c].h = "none" /\ hist[c] # <<>>
        /\ hist[c][Len(hist[c])].e \in {"resctrl_online_cpu", "clear_closid_rmid"}
        /\ TrackingReset(c)
        /\ OnlineDone(o) /\ pqr_state[o] = InUse /\ pqr_assoc[o] = InUseAssoc


---------------------------------------------------------------------------
\* C22: a control domain that has been torn down is never linked again.  The
\* step that removes a domain from a list frees it, and every step that makes a
\* domain appear in a list allocates it in that step: its memory was not
\* allocated before the step, its quota array holds the default of the resource
\* for every allocation class whatever a freed domain of the same identity
\* held, the defaults are written to the registers of the identity again, and
\* resctrl_online_ctrl_domain() is called again.
C22_FreshDomain ==
    [][\A r \in RegRids :
           LET old  == ctrl_domains[r]
               new  == ctrl_domains'[r]
               dflt == resctrl_get_default_ctrl(res[r])
           IN  /\ \A k \in 1 .. Len(old) :
                      (\A n \in 1 .. Len(new) : new[n].id # old[k].id)
                          => /\ old[k].addr \notin heap'
                             /\ [rid |-> r, id |-> old[k].id, ctrl_val |-> old[k].ctrl_val] \in torn'
               /\ \A n \in 1 .. Len(new) :
                      (\A k \in 1 .. Len(old) : old[k].id # new[n].id)
                          => /\ new[n].addr \notin heap
                             /\ new[n].addr \in heap'
                             /\ new[n].cpu_mask = {ev'.cpu}
                             /\ ev'.op = "domain_add_cpu_ctrl" /\ ev'.id = new[n].id
                             /\ {"kzalloc", "msr_update", "resctrl_online_ctrl_domain"}
                                    \subseteq Elems(ev'.steps)
                             /\ DOMAIN new[n].ctrl_val = 0 .. (res[r].num_closid - 1)
                             /\ \A i \in 0 .. (res[r].num_closid - 1) :
                                    /\ new[n].ctrl_val[i] = dflt
                                    /\ msr'[r][new[n].id][i] = dflt]_vars

\* A cpu has just created the domain of an identity whose earlier domain was
\* freed holding a quota that was not the default; the new domain and the
\* registers hold the default for that class
C22_Witness ==
    /\ ev.op = "domain_add_cpu_ctrl" /\ ev.out = "created"
    /\ \E t \in torn : \E n \in 1 .. Len(ctrl_domains[ev.rid]) :
           \E i \in 0 .. (res[ev.rid].num_closid - 1) :
               /\ t.rid = ev.rid /\ t.id = ev.id
               /\ ctrl_domains[ev.rid][n].id = ev.id
               /\ t.ctrl_val[i] # resctrl_get_default_ctrl(res[ev.rid])
               /\ ctrl_domains[ev.rid][n].ctrl_val[i] = resctrl_get_default_ctrl(res[ev.rid])
               /\ msr[ev.rid][ev.id][i] = resctrl_get_default_ctrl(res[ev.rid])


---------------------------------------------------------------------------
\* C23: when resctrl_arch_late_init() has returned, it has returned 0 with the
\* hotplug callbacks registered, or an error with no callback registered and
\* no domain linked in any list and no domain memory allocated; and it has
\* returned an error whenever no resource is allocation- or monitoring-capable.
C23_NoPartialState ==
    late.pc = "return" =>
        /\ late.ret \in {"0", "-ENODEV", "-ENOSPC", "-ENOMEM"}
        /\ (\A r \in Rids : ~res[r].alloc_capable /\ ~res[r].mon_capable)
               => late.ret = "-ENODEV"
        /\ late.ret = "0" => late.state
        /\ late.ret # "0" =>
               /\ ~late.state
               /\ \A r \in Rids : ctrl_domains[r] = <<>> /\ mon_domains[r] = <<>>
               /\ heap = {}
               /\ \A c \in Cpus : pc[c] = Idle(FALSE)

\* resctrl_init() has failed after the online callback had created domains and
\* programmed their registers; the initialisation has returned the error
C23_Witness ==
    /\ late.pc = "return" /\ late.ret = "-ENOMEM" /\ ~late.state
    /\ \E r \in Rids : \E id \in Ids : \E i \in DOMAIN msr[r][id] : msr[r][id][i] # 0
    /\ \A r \in Rids : ctrl_domains[r] = <<>> /\ mon_domains[r] = <<>>
    /\ \A c \in Cpus : hist[c] # <<>>


---------------------------------------------------------------------------
\* C24: delay_bw_map() never takes its path for a delay table that is not
\* linear.  A resource programmed by mba_wrmsr_intel() that is
\* allocation-capable, has a domain or has had registers written has
\* delay_linear set, whatever the feature bits, the delay encoding the
\* hardware reports and the rdt= options are; and with an encoding that is not
\* linear such a resource is not allocation-capable.
C24_LinearOnly ==
    \A r \in Rids :
        res[r].msr_update = "mba_wrmsr_intel" =>
            /\ (res[r].alloc_capable \/ ctrl_domains[r] # <<>>
                \/ (ev.rid = r /\ ev.wrote # <<>>)
                \/ \E id \in Ids : \E i \in DOMAIN msr[r][id] : msr[r][id][i] # 0)
                   => res[r].delay_linear
            /\ (bootpc = "done" /\ ~late.linear) => ~res[r].alloc_capable

\* mba_wrmsr_intel() has just programmed a domain of the bandwidth resource,
\* through delay_bw_map() with a linear table, although rdt=mba was given
C24_Witness ==
    /\ ev.op = "domain_add_cpu_ctrl" /\ ev.out = "created" /\ ev.wrote # <<>>
    /\ ev.rid = RDT_RESOURCE_MBA
    /\ res[ev.rid].msr_update = "mba_wrmsr_intel" /\ res[ev.rid].delay_linear
    /\ rdt_options[option_of_flag("X86_FEATURE_MBA", 1)].force_on

=============================================================================
